---- MODULE Spec2Model ----
(***************************************************************************)
(* Hiperfaturômetro: the heuristic scoring pipeline                        *)
(* (HiperfaturamentoAnalyzer) and the batch job (HiperfaturamentoTracker). *)
(*                                                                         *)
(* Conventions of the model                                                *)
(*  - A Python float is modelled by the exact rational it denotes, a       *)
(*    record [n |-> numerator, d |-> denominator > 0] in lowest terms.     *)
(*  - Optional[T] is a sequence: <<>> is None, <<v>> is the value v.       *)
(*  - A text (description, specification) is a sequence of word tokens;    *)
(*    str.lower() maps every token through LowerTok and `a in b` is the    *)
(*    search for a contiguous run of tokens.                               *)
(*  - A timestamp is a number of hours; timedelta.days is the floor of     *)
(*    the difference divided by 24.                                        *)
(*  - Win rates are hundredths (0.85 is 85), weights are tenths (0.4 is 4);*)
(*    prices are whole currency units.                                     *)
(***************************************************************************)
EXTENDS Integers, Sequences, FiniteSets, TLC

VARIABLES
    pc,              \* position of executar_ciclo_completo
    agora,           \* datetime.now() of the running cycle, in hours
    licitacoes,      \* the batch returned by the collector
    analises,        \* the list returned by _analisar_licitacoes
    casos,           \* the list returned by _processar_casos
    relatorio,       \* the report of the cycle
    arq_licitacoes,  \* data/licitacoes.json
    arq_analises,    \* data/analises.json
    arq_casos,       \* data/casos_processados.json
    chamada,         \* the last direct call of an analyzer method, with its result
    execucao,        \* runs of run_tracker.main started so far
    falhas,          \* what has failed in the current run
    truncados,       \* the store files that hold an incomplete document on disk
    saida,           \* exit code of the last run of main, <<>> while it runs
    leitura          \* a read of the API's DataService, with what it returned

\* arq_x is the last array written completely into the file; while x is in
\* truncados the file on disk holds less than a document (open(..., 'w') has
\* truncated it and json.dump has not finished).

vars == <<pc, agora, licitacoes, analises, casos, relatorio,
          arq_licitacoes, arq_analises, arq_casos, chamada,
          execucao, falhas, truncados, saida, leitura>>

-----------------------------------------------------------------------------
(* Bounds *)

MaxLote == 2            \* records in one collected batch
MaxParticipantes == 2   \* bidders of a record in the direct calls
MaxEvidencias == 2      \* length of a hand-built evidence list
MaxRepeticoes == 1      \* extra occurrences of a phrase in a specification
MaxExecucoes == 2       \* runs of the batch job
MaxFalhas == 1          \* failures injected into one run
MaxLimit == 2           \* the limit parameter of GET /cases
LimiteDeRecursao == 4   \* frames of consultar_empresa the interpreter allows

-----------------------------------------------------------------------------
(* Exact arithmetic *)

Abs(x) == IF x < 0 THEN -x ELSE x

RECURSIVE GCD(_, _)
GCD(a, b) == IF b = 0 THEN a ELSE GCD(b, a % b)

Frac(n, d) ==
    LET s == IF d < 0 THEN -1 ELSE 1
        g == GCD(Abs(n), Abs(d))
    IN  [n |-> (s * n) \div g, d |-> (s * d) \div g]

Num(k) == [n |-> k, d |-> 1]

RAdd(a, b) == Frac(a.n * b.d + b.n * a.d, a.d * b.d)
RMul(a, b) == Frac(a.n * b.n, a.d * b.d)
RDiv(a, b) == Frac(a.n * b.d, a.d * b.n)
RLt(a, b)  == a.n * b.d < b.n * a.d
RLe(a, b)  == a.n * b.d <= b.n * a.d
RMin(a, b) == IF RLt(b, a) THEN b ELSE a

\* int(x): truncation toward zero
Trunc(a) == IF a.n >= 0 THEN a.n \div a.d ELSE -((-a.n) \div a.d)

\* f"{x:.1f}": x in tenths, ties to the even tenth
Fmt1(a) ==
    LET t == (Abs(a.n) * 10) \div a.d
        r == (Abs(a.n) * 10) % a.d
        up == 2 * r > a.d \/ (2 * r = a.d /\ t % 2 = 1)
        m == IF up THEN t + 1 ELSE t
    IN  IF a.n < 0 THEN -m ELSE m

RECURSIVE SumSeq(_)
SumSeq(s) == IF s = <<>> THEN Num(0) ELSE RAdd(s[1], SumSeq(Tail(s)))

-----------------------------------------------------------------------------
(* Texts *)

\* str.lower() on one word
LowerTok(t) ==
    CASE t = "Exclusivamente"   -> "exclusivamente"
      [] t = "EXCLUSIVAMENTE"   -> "exclusivamente"
      [] t = "Apenas"           -> "apenas"
      [] t = "APENAS"           -> "apenas"
      [] t = "Somente"          -> "somente"
      [] t = "SOMENTE"          -> "somente"
      [] t = "Obrigatoriamente" -> "obrigatoriamente"
      [] t = "OBRIGATORIAMENTE" -> "obrigatoriamente"
      [] t = "Marca"            -> "marca"
      [] t = "MARCA"            -> "marca"
      [] t = "Específica"       -> "específica"
      [] t = "ESPECÍFICA"       -> "específica"
      [] t = "Modelo"           -> "modelo"
      [] t = "MODELO"           -> "modelo"
      [] t = "Específico"       -> "específico"
      [] t = "ESPECÍFICO"       -> "específico"
      [] t = "Notebook"         -> "notebook"
      [] t = "Dell"             -> "dell"
      [] t = "Latitude"         -> "latitude"
      [] t = "Tablet"           -> "tablet"
      [] t = "Samsung"          -> "samsung"
      [] t = "Galaxy"           -> "galaxy"
      [] t = "Tab"              -> "tab"
      [] t = "A8"               -> "a8"
      [] t = "Computador"       -> "computador"
      [] t = "Desktop"          -> "desktop"
      [] t = "Produto"          -> "produto"
      [] t = "Inexistente"      -> "inexistente"
      [] t = "Intel"            -> "intel"
      [] t = "RAM"              -> "ram"
      [] t = "SSD"              -> "ssd"
      [] t = "Android"          -> "android"
      [] t = "HP"               -> "hp"
      [] t = "Teste"            -> "teste"
      [] t = "TESTE"            -> "teste"
      [] t = "Orgão"            -> "orgão"
      [] t = "Ministério"       -> "ministério"
      [] t = "Educação"         -> "educação"
      [] t = "Alto"             -> "alto"
      [] t = "Médio"            -> "médio"
      [] t = "Baixo"            -> "baixo"
      [] t = "Crítico"          -> "crítico"
      [] OTHER                  -> t

Lower(s) == [i \in 1..Len(s) |-> LowerTok(s[i])]

\* `p in s`
Contains(s, p) ==
    \E i \in 0..(Len(s) - Len(p)) : SubSeq(s, i + 1, i + Len(p)) = p

-----------------------------------------------------------------------------
(* Models: enums of models/analise.py *)

BAIXO   == "Baixo"
MEDIO   == "Médio"
ALTO    == "Alto"
CRITICO == "Crítico"
NivelRisco == {BAIXO, MEDIO, ALTO, CRITICO}

PRECO_EXCESSIVO            == "preco_excessivo"
ESPECIFICACOES_TAILOR_MADE == "especificacoes_tailor_made"
EMPRESA_CARTEL             == "empresa_cartel"
BAIXA_CONCORRENCIA         == "baixa_concorrencia"
PRAZO_SUSPEITO             == "prazo_suspeito"
HISTORICO_SUSPEITO         == "historico_suspeito"
TipoEvidencia == {PRECO_EXCESSIVO, ESPECIFICACOES_TAILOR_MADE, EMPRESA_CARTEL,
                  BAIXA_CONCORRENCIA, PRAZO_SUSPEITO, HISTORICO_SUSPEITO}

Evidencia(tipo, descricao, score, detalhes) ==
    [tipo |-> tipo, descricao |-> descricao, score |-> score, detalhes |-> detalhes]

-----------------------------------------------------------------------------
(* HiperfaturamentoAnalyzer.__init__ *)

thresholds ==
    [preco_excessivo            |-> 50,
     especificacoes_tailor_made |-> 80,
     empresa_cartel             |-> 80,
     baixa_concorrencia         |-> 1,
     prazo_suspeito             |-> 3]

pesos ==
    [preco_excessivo            |-> 4,
     especificacoes_tailor_made |-> 3,
     empresa_cartel             |-> 2,
     baixa_concorrencia         |-> 1]

PesoPadrao == 1

-----------------------------------------------------------------------------
(* HiperfaturamentoAnalyzer._obter_preco_mercado *)

\* the dict precos_mercado, in insertion order
precos_mercado ==
    << [k |-> <<"dell", "latitude", "5520">>,        p |-> 2800],
       [k |-> <<"dell", "latitude">>,                p |-> 2800],
       [k |-> <<"dell">>,                            p |-> 2800],
       [k |-> <<"hp", "elitebook", "850", "g8">>,    p |-> 3200],
       [k |-> <<"hp", "elitebook">>,                 p |-> 3200],
       [k |-> <<"hp", "elite">>,                     p |-> 3200],
       [k |-> <<"hp">>,                              p |-> 3000],
       [k |-> <<"lenovo", "thinkpad", "e15">>,       p |-> 2900],
       [k |-> <<"lenovo", "thinkpad">>,              p |-> 2900],
       [k |-> <<"lenovo">>,                          p |-> 2900],
       [k |-> <<"samsung", "galaxy", "tab", "a8">>,  p |-> 1200],
       [k |-> <<"samsung", "galaxy", "tab">>,        p |-> 1200],
       [k |-> <<"samsung", "tablet">>,               p |-> 1200],
       [k |-> <<"ipad", "10.9">>,                    p |-> 2800],
       [k |-> <<"ipad">>,                            p |-> 2800],
       [k |-> <<"apple", "ipad">>,                   p |-> 2800],
       [k |-> <<"samsung", "galaxy", "a54">>,        p |-> 1800],
       [k |-> <<"samsung", "galaxy">>,               p |-> 1800],
       [k |-> <<"samsung", "smartphone">>,           p |-> 1800],
       [k |-> <<"motorola", "moto", "g73">>,         p |-> 1400],
       [k |-> <<"motorola", "moto">>,                p |-> 1400],
       [k |-> <<"motorola">>,                        p |-> 1400],
       [k |-> <<"hp", "elitedesk", "800", "g8">>,    p |-> 3500],
       [k |-> <<"hp", "elitedesk">>,                 p |-> 3500],
       [k |-> <<"desktop", "hp">>,                   p |-> 3500],
       [k |-> <<"notebook">>,                        p |-> 2800],
       [k |-> <<"tablet">>,                          p |-> 1500],
       [k |-> <<"smartphone">>,                      p |-> 1600],
       [k |-> <<"computador">>,                      p |-> 3500],
       [k |-> <<"desktop">>,                         p |-> 3500] >>

AnyWord(texto, palavras) == \E w \in palavras : Contains(texto, <<w>>)

ObterPrecoMercado(produto) ==
    LET produto_lower == Lower(produto)
        hits == {i \in 1..Len(precos_mercado) :
                    Contains(produto_lower, precos_mercado[i].k)}
        first == CHOOSE i \in hits : \A j \in hits : i <= j
    IN  IF hits # {} THEN <<precos_mercado[first].p>>
        ELSE IF AnyWord(produto_lower, {"notebook", "laptop"}) THEN <<2800>>
        ELSE IF AnyWord(produto_lower, {"tablet", "ipad"}) THEN <<1500>>
        ELSE IF AnyWord(produto_lower, {"smartphone", "celular", "moto"}) THEN <<1600>>
        ELSE IF AnyWord(produto_lower, {"computador", "desktop", "pc"}) THEN <<3500>>
        ELSE <<>>

\* The price reference as a test sees it: patch.object(..., '_obter_preco_mercado')
\* replaces the lookup by a fixed return value.
SemPatch == [ativo |-> FALSE, valor |-> <<>>]
Patch(v) == [ativo |-> TRUE, valor |-> v]

PrecoMercado(patch, produto) ==
    IF patch.ativo THEN patch.valor ELSE ObterPrecoMercado(produto)

-----------------------------------------------------------------------------
(* The five detectors *)

\* what a detector would let through if it did not catch: the exception
Excecao == <<"IndexError", "list index out of range">>

\* variant of Tentar: the exception leaves the detector
TentarSemExcept(levanta, valor) == IF levanta THEN Excecao ELSE valor

\* try: ... except Exception: return None, around the body of a detector;
\* levanta tells whether the body raises, valor is what it returns otherwise
Tentar(levanta, valor) == IF levanta THEN <<>> ELSE valor

\* variant of MenorPreco: the price of the first bidder of the list
PrimeiroPreco(ps) == ps[1].preco_proposto

RECURSIVE MenorPreco(_)
\* min(p.preco_proposto for p in participantes), participantes non-empty
MenorPreco(ps) ==
    IF Len(ps) = 1 THEN ps[1].preco_proposto
    ELSE LET m == MenorPreco(Tail(ps))
         IN  IF m < ps[1].preco_proposto THEN m ELSE ps[1].preco_proposto

DiferencaPercentual(menor_preco, preco_mercado) ==
    RMul(Frac(menor_preco - preco_mercado, preco_mercado), Num(100))

AnalisarPrecoExcessivo(lic, patch) ==
    IF lic.participantes = <<>> THEN <<>>
    ELSE Tentar(lic.itens = <<>>,          \* IndexError on itens[0]
        LET menor_preco   == MenorPreco(lic.participantes)
            preco_mercado == PrecoMercado(patch, lic.itens[1].descricao)
        IN  IF preco_mercado # <<>> /\ preco_mercado[1] # 0
            THEN LET diferenca_percentual ==
                         DiferencaPercentual(menor_preco, preco_mercado[1])
                 IN  IF RLt(Num(thresholds.preco_excessivo), diferenca_percentual)
                     THEN << Evidencia(PRECO_EXCESSIVO,
                                <<"Preço ", Fmt1(diferenca_percentual), "% acima do mercado">>,
                                RMin(Num(100), diferenca_percentual),
                                [preco_proposto       |-> menor_preco,
                                 preco_mercado        |-> preco_mercado[1],
                                 diferenca_percentual |-> diferenca_percentual]) >>
                     ELSE <<>>
            ELSE <<>>)

palavras_suspeitas ==
    << <<"exclusivamente">>, <<"apenas">>, <<"somente">>, <<"obrigatoriamente">>,
       <<"marca", "específica">>, <<"modelo", "específico">> >>

RECURSIVE Ocorrencias(_, _, _)
\* occurrences of phrase p in s from position i on
Ocorrencias(s, p, i) ==
    IF i + Len(p) - 1 > Len(s) THEN 0
    ELSE (IF SubSeq(s, i, i + Len(p) - 1) = p THEN 1 ELSE 0) + Ocorrencias(s, p, i + 1)

RECURSIVE ScoreSuspeicaoPorOcorrencia(_, _)
\* variant of ScoreSuspeicao: 20 for every occurrence of a phrase
ScoreSuspeicaoPorOcorrencia(especificacoes, i) ==
    IF i > Len(palavras_suspeitas) THEN 0
    ELSE 20 * Ocorrencias(especificacoes, palavras_suspeitas[i], 1)
         + ScoreSuspeicaoPorOcorrencia(especificacoes, i + 1)

RECURSIVE ScoreSuspeicao(_, _)
\* the loop over palavras_suspeitas from index i on
ScoreSuspeicao(especificacoes, i) ==
    IF i > Len(palavras_suspeitas) THEN 0
    ELSE (IF Contains(especificacoes, palavras_suspeitas[i]) THEN 20 ELSE 0)
         + ScoreSuspeicao(especificacoes, i + 1)

AnalisarEspecificacoesTailorMade(lic) ==
    Tentar(lic.itens = <<>>,               \* IndexError on itens[0]
        LET especificacoes  == Lower(lic.itens[1].especificacoes)
            score_suspeicao == ScoreSuspeicao(especificacoes, 1)
        IN  IF score_suspeicao > 40
            THEN << Evidencia(ESPECIFICACOES_TAILOR_MADE,
                       <<"Especificações muito específicas detectadas">>,
                       Num(score_suspeicao),
                       [especificacoes  |-> lic.itens[1].especificacoes,
                        score_suspeicao |-> score_suspeicao]) >>
            ELSE <<>>)

\* the ids the cartel stand-in treats as suspicious
IdsSuspeitos ==
    {"PT-2024-001", "PT-2024-002", "PT-2024-003", "PT-2024-004",
     "PT-2024-005", "PT-2024-006", "CN-2024-001", "CN-2024-002"}

\* variant of TaxaVitorias: the stand-in is drawn from a range that reaches
\* over the cartel threshold
TaxaVitoriasAmpla(id, sorteio) == IF id \in IdsSuspeitos THEN 85 ELSE sorteio + 30

\* sorteio is the value random.uniform(0.1, 0.6) returns, in hundredths
TaxaVitorias(id, sorteio) == IF id \in IdsSuspeitos THEN 85 ELSE sorteio

AnalisarEmpresaCartel(lic, sorteio) ==
    IF lic.participantes = <<>> THEN <<>>
    ELSE
        LET empresa_vencedora == lic.participantes[1]
            taxa_vitorias     == TaxaVitorias(lic.id, sorteio)
        IN  IF taxa_vitorias > thresholds.empresa_cartel
            THEN << Evidencia(EMPRESA_CARTEL,
                       <<"Empresa ganhou ", taxa_vitorias * 10, "% das licitações no órgão">>,
                       Num(taxa_vitorias),
                       [empresa       |-> empresa_vencedora.nome,
                        cnpj          |-> empresa_vencedora.cnpj,
                        taxa_vitorias |-> taxa_vitorias,
                        orgao         |-> lic.orgao]) >>
            ELSE <<>>

AnalisarBaixaConcorrencia(lic) ==
    LET num_participantes == Len(lic.participantes)
    IN  IF num_participantes < thresholds.baixa_concorrencia
        THEN << Evidencia(BAIXA_CONCORRENCIA,
                   <<"Apenas ", num_participantes, " participante(s)">>,
                   Num(100 - (num_participantes * 50)),
                   [num_participantes |-> num_participantes,
                    threshold         |-> thresholds.baixa_concorrencia]) >>
        ELSE <<>>

HorasPorDia == 24

\* variant of DiasParaFechamento: the difference truncated toward zero
DiasTruncados(data_fechamento, now) ==
    IF data_fechamento >= now THEN (data_fechamento - now) \div HorasPorDia
    ELSE -((now - data_fechamento) \div HorasPorDia)

\* (data_fechamento - now).days
DiasParaFechamento(data_fechamento, now) == (data_fechamento - now) \div HorasPorDia

AnalisarPrazoSuspeito(lic, now) ==
    LET dias_para_fechamento == DiasParaFechamento(lic.data_fechamento, now)
    IN  IF dias_para_fechamento < thresholds.prazo_suspeito
        THEN << Evidencia(PRAZO_SUSPEITO,
                   <<"Apenas ", dias_para_fechamento, " dias para fechamento">>,
                   Num(100 - (dias_para_fechamento * 20)),
                   [dias_para_fechamento |-> dias_para_fechamento,
                    threshold            |-> thresholds.prazo_suspeito]) >>
        ELSE <<>>

-----------------------------------------------------------------------------
(* Aggregation *)

Peso(tipo) == IF tipo \in DOMAIN pesos THEN pesos[tipo] ELSE PesoPadrao

RECURSIVE ScorePonderado(_)
ScorePonderado(evidencias) ==
    IF evidencias = <<>> THEN Num(0)
    ELSE RAdd(RMul(evidencias[1].score, Num(Peso(evidencias[1].tipo))),
              ScorePonderado(Tail(evidencias)))

RECURSIVE PesoTotal(_)
PesoTotal(evidencias) ==
    IF evidencias = <<>> THEN 0
    ELSE Peso(evidencias[1].tipo) + PesoTotal(Tail(evidencias))

\* variant of CalcularScoreGeral: the plain mean of the scores
CalcularScoreGeralSemPesos(evidencias) ==
    IF evidencias = <<>> THEN Num(0)
    ELSE RDiv(SumSeq([i \in 1..Len(evidencias) |-> evidencias[i].score]),
              Num(Len(evidencias)))

CalcularScoreGeral(evidencias) ==
    IF evidencias = <<>> THEN Num(0)
    ELSE IF PesoTotal(evidencias) > 0
         THEN RDiv(ScorePonderado(evidencias), Num(PesoTotal(evidencias)))
         ELSE Num(0)

\* variant of DeterminarNivelRisco: strict comparisons
DeterminarNivelRiscoEstrito(score) ==
    IF RLt(Num(80), score) THEN CRITICO
    ELSE IF RLt(Num(60), score) THEN ALTO
    ELSE IF RLt(Num(40), score) THEN MEDIO
    ELSE BAIXO

DeterminarNivelRisco(score) ==
    IF RLe(Num(80), score) THEN CRITICO
    ELSE IF RLe(Num(60), score) THEN ALTO
    ELSE IF RLe(Num(40), score) THEN MEDIO
    ELSE BAIXO

RecomendacaoEspecifica(tipo) ==
    IF tipo = PRECO_EXCESSIVO THEN <<"Verificar preços de mercado atualizados">>
    ELSE IF tipo = ESPECIFICACOES_TAILOR_MADE THEN <<"Revisar especificações técnicas">>
    ELSE IF tipo = EMPRESA_CARTEL THEN <<"Investigar histórico da empresa no órgão">>
    ELSE IF tipo = BAIXA_CONCORRENCIA THEN <<"Aumentar prazo para mais participantes">>
    ELSE <<>>

RECURSIVE RecomendacoesPorEvidencia(_)
RecomendacoesPorEvidencia(evidencias) ==
    IF evidencias = <<>> THEN <<>>
    ELSE RecomendacaoEspecifica(evidencias[1].tipo)
         \o RecomendacoesPorEvidencia(Tail(evidencias))

GerarRecomendacoes(evidencias, score) ==
    (IF RLe(Num(80), score)
     THEN <<"URGENTE: Investigação imediata recomendada", "Solicitar auditoria externa">>
     ELSE IF RLe(Num(60), score)
     THEN <<"Análise detalhada recomendada", "Verificar histórico da empresa">>
     ELSE IF RLe(Num(40), score)
     THEN <<"Monitoramento adicional recomendado">>
     ELSE <<>>)
    \o RecomendacoesPorEvidencia(evidencias)

Scores(evidencias) == [i \in 1..Len(evidencias) |-> evidencias[i].score]

\* variant of CalcularConfiabilidade: the base is not scaled by the number of items
CalcularConfiabilidadeSemBase(evidencias) ==
    IF evidencias = <<>> THEN Num(0)
    ELSE RMin(Num(100), RDiv(SumSeq(Scores(evidencias)), Num(Len(evidencias))))

CalcularConfiabilidade(evidencias) ==
    IF evidencias = <<>> THEN Num(0)
    ELSE
        LET n == Len(evidencias)
            confiabilidade_base == IF n * 20 < 100 THEN n * 20 ELSE 100
            score_medio == RDiv(SumSeq(Scores(evidencias)), Num(n))
            confiabilidade_ajustada ==
                RMul(Num(confiabilidade_base), RDiv(score_medio, Num(100)))
        IN  RMin(Num(100), confiabilidade_ajustada)

\* the analysis the except branch of analisar_licitacao returns
AnaliseComErro(lic, now) ==
    [licitacao_id   |-> lic.id,
     data_analise   |-> now,
     score_geral    |-> Num(0),
     nivel_risco    |-> BAIXO,
     evidencias     |-> <<>>,
     recomendacoes  |-> <<"Erro na análise - verificar dados">>,
     confiabilidade |-> Num(0)]

\* what the five detectors return, in the order analisar_licitacao calls them
Deteccoes(lic, now, sorteio) ==
    << AnalisarPrecoExcessivo(lic, SemPatch),
       AnalisarEspecificacoesTailorMade(lic),
       AnalisarEmpresaCartel(lic, sorteio),
       AnalisarBaixaConcorrencia(lic),
       AnalisarPrazoSuspeito(lic, now) >>

\* the evidence list analisar_licitacao builds when no detector raises
ColetarEvidencias(lic, now, sorteio) ==
    AnalisarPrecoExcessivo(lic, SemPatch)
    \o AnalisarEspecificacoesTailorMade(lic)
    \o AnalisarEmpresaCartel(lic, sorteio)
    \o AnalisarBaixaConcorrencia(lic)
    \o AnalisarPrazoSuspeito(lic, now)

\* analisar_licitacao: what a detector lets through is caught by the except
\* branch; the aggregation raises on no evidence list
AnalisarLicitacao(lic, now, sorteio) ==
    LET deteccoes   == Deteccoes(lic, now, sorteio)
        evidencias  == ColetarEvidencias(lic, now, sorteio)
        score_geral == CalcularScoreGeral(evidencias)
    IN  IF \E i \in 1..Len(deteccoes) : deteccoes[i] = Excecao
        THEN AnaliseComErro(lic, now)
        ELSE
        [licitacao_id   |-> lic.id,
         data_analise   |-> now,
         score_geral    |-> score_geral,
         nivel_risco    |-> DeterminarNivelRisco(score_geral),
         evidencias     |-> evidencias,
         recomendacoes  |-> GerarRecomendacoes(evidencias, score_geral),
         confiabilidade |-> CalcularConfiabilidade(evidencias)]

-----------------------------------------------------------------------------
(* HiperfaturamentoTracker: materialising cases *)

RECURSIVE Vencedor(_)
\* min(participantes, key=lambda p: p.preco_proposto): the first of the cheapest
Vencedor(ps) ==
    IF Len(ps) = 1 THEN ps[1]
    ELSE LET v == Vencedor(Tail(ps))
         IN  IF v.preco_proposto < ps[1].preco_proposto THEN v ELSE ps[1]

\* variant of PriorityLevel: a score on a boundary falls into the lower tier
PriorityLevelEstrito(score_geral) ==
    IF RLt(Num(80), score_geral) THEN "Crítica"
    ELSE IF RLt(Num(60), score_geral) THEN "Alta"
    ELSE IF RLt(Num(40), score_geral) THEN "Média"
    ELSE "Baixa"

PriorityLevel(score_geral) ==
    IF RLe(Num(80), score_geral) THEN "Crítica"
    ELSE IF RLe(Num(60), score_geral) THEN "Alta"
    ELSE IF RLe(Num(40), score_geral) THEN "Média"
    ELSE "Baixa"

CriarEnvolvidos(lic, empresa, cnpj) ==
    [empresa   |-> [nome |-> empresa, cnpj |-> cnpj,
                    socios |-> <<"João Silva", "Maria Santos">>,
                    historico_vitorias |-> 15, faturamento_anual |-> 5000000],
     aprovador |-> [nome |-> "Carlos Oliveira", cargo |-> "Diretor de Compras",
                    orgao |-> lic.orgao, historico_licitacoes |-> 50,
                    tempo_cargo |-> "3 anos"]]

\* _criar_caso_processado raises IndexError on itens[0] of a record without
\* items, and UnboundLocalError on preco_mercado (bound only inside
\* `if licitacao.participantes:`) for a record without bidders.
CriarCasoLevanta(lic) == lic.itens = <<>> \/ lic.participantes = <<>>

\* the case built when nothing is raised
CriarCasoProcessado(lic, analise) ==
    LET menor_preco   == MenorPreco(lic.participantes)
        preco_mercado == ObterPrecoMercado(lic.itens[1].descricao)
        tem_preco     == preco_mercado # <<>> /\ preco_mercado[1] # 0
        vencedor      == Vencedor(lic.participantes)
    IN  [id                   |-> lic.id,
         titulo               |-> <<"Superfaturamento em ">> \o lic.itens[1].descricao,
         orgao                |-> lic.orgao,
         data_abertura        |-> lic.data_abertura \div HorasPorDia,
         valor_estimado       |-> lic.valor_estimado,
         empresa_vencedora    |-> vencedor.nome,
         cnpj                 |-> vencedor.cnpj,
         produto              |-> lic.itens[1].descricao,
         quantidade           |-> lic.itens[1].quantidade,
         preco_edital         |-> menor_preco,
         preco_mercado        |-> IF tem_preco THEN preco_mercado[1] ELSE 0,
         diferenca_percentual |-> IF tem_preco
                                  THEN DiferencaPercentual(menor_preco, preco_mercado[1])
                                  ELSE Num(0),
         valor_superfaturado  |-> IF tem_preco
                                  THEN (menor_preco - preco_mercado[1]) * lic.itens[1].quantidade
                                  ELSE 0,
         evidencias           |-> [i \in 1..Len(analise.evidencias) |->
                                      analise.evidencias[i].descricao],
         status               |-> IF analise.recomendacoes # <<>>
                                  THEN analise.recomendacoes[1] ELSE "Em análise",
         nivel_risco          |-> analise.nivel_risco,
         risk_score           |-> Trunc(analise.score_geral),
         priority_level       |-> PriorityLevel(analise.score_geral),
         envolvidos           |-> CriarEnvolvidos(lic, vencedor.nome, vencedor.cnpj)]

\* analises_map.get(id): the dict comprehension keeps the last analysis of an id
AnalisesMapGet(lista, id) ==
    LET idx == {i \in 1..Len(lista) : lista[i].licitacao_id = id}
        ultimo == CHOOSE i \in idx : \A j \in idx : j <= i
    IN  IF idx = {} THEN <<>> ELSE <<lista[ultimo]>>

\* one iteration of the loop of _processar_casos: the cases it appends
CasoDe(lic, lista) ==
    LET analise == AnalisesMapGet(lista, lic.id)
    IN  IF analise = <<>> THEN <<>>
        ELSE IF analise[1].nivel_risco \in {MEDIO, ALTO, CRITICO}
             THEN IF CriarCasoLevanta(lic) THEN <<>>      \* caught, logged
                  ELSE <<CriarCasoProcessado(lic, analise[1])>>
             ELSE <<>>

RECURSIVE ProcessarCasosDe(_, _)
ProcessarCasosDe(lics, lista) ==
    IF lics = <<>> THEN <<>>
    ELSE CasoDe(lics[1], lista) \o ProcessarCasosDe(Tail(lics), lista)

ProcessarCasos(lics, lista) == ProcessarCasosDe(lics, lista)

\* how the analysis of a record can go: nothing raises; something raises
\* inside the try block of analisar_licitacao; the call of analisar_licitacao
\* itself raises (the analyzer is a replaceable dependency of the tracker)
FalhasDeAnalise == {"nenhuma", "interna", "propagada"}

\* one iteration of the loop of _analisar_licitacoes: the analyses it appends
AnaliseDe(lic, now, sorteio, falha) ==
    IF falha = "propagada" THEN <<>>                       \* caught by the tracker, logged
    ELSE IF falha = "interna" THEN <<AnaliseComErro(lic, now)>>
    ELSE <<AnalisarLicitacao(lic, now, sorteio)>>

RECURSIVE AnalisarLicitacoesCom(_, _, _, _)
\* _analisar_licitacoes when the analysis of the i-th record goes as falhas_analise[i]
AnalisarLicitacoesCom(lics, now, sorteios, falhas_analise) ==
    IF lics = <<>> THEN <<>>
    ELSE AnaliseDe(lics[1], now, sorteios[1], falhas_analise[1])
         \o AnalisarLicitacoesCom(Tail(lics), now, Tail(sorteios), Tail(falhas_analise))

\* _analisar_licitacoes when nothing raises: every record gets its analysis;
\* sorteios[i] is the random draw of the i-th analysis
AnalisarLicitacoes(lics, now, sorteios) ==
    AnalisarLicitacoesCom(lics, now, sorteios, [i \in 1..Len(lics) |-> "nenhuma"])

CasosSuspeitos(cs) == Cardinality({i \in 1..Len(cs) : cs[i].nivel_risco \in {ALTO, CRITICO}})

-----------------------------------------------------------------------------
(* Input domains *)

TechSolutions  == [nome |-> "Tech Solutions LTDA",  cnpj |-> "12.345.678/0001-90"]
DigitalDevices == [nome |-> "Digital Devices S.A.", cnpj |-> "98.765.432/0001-10"]

Empresas == {TechSolutions, DigitalDevices}

Precos == {4000, 4200, 4500, 6000}

Part(e, p, c) ==
    [cnpj |-> e.cnpj, nome |-> e.nome, preco_proposto |-> p,
     classificacao |-> c, habilitado |-> TRUE]

Participantes == { Part(e, p, c) : e \in Empresas, p \in Precos, c \in {1, 2} }

SeqsAte(S, n) == UNION { [1..k -> S] : k \in 0..n }

ListasParticipantes == SeqsAte(Participantes, MaxParticipantes)

\* the bidder lists of the whole-record runs
ListasCurtas ==
    { <<>>,
      << Part(TechSolutions, 4000, 1) >>,
      << Part(TechSolutions, 6000, 1), Part(DigitalDevices, 4500, 2) >>,
      << Part(DigitalDevices, 4500, 2), Part(TechSolutions, 6000, 1) >> }

DescricaoDell        == <<"Notebook", "Dell", "Latitude", "5520">>
DescricaoInexistente == <<"Produto", "Inexistente">>
Descricoes == {DescricaoDell, DescricaoInexistente, <<"Tablet", "Samsung", "Galaxy", "Tab", "A8">>}

EspecNormal == <<"Intel", "i5", "8GB", "RAM", "SSD", "256GB">>

\* the i-th suspicious phrase written in a style
Frase(i, estilo) ==
    CASE estilo = "lower" -> palavras_suspeitas[i]
      [] estilo = "Capital" ->
            << <<"Exclusivamente">>, <<"Apenas">>, <<"Somente">>, <<"Obrigatoriamente">>,
               <<"Marca", "Específica">>, <<"Modelo", "Específico">> >>[i]
      [] estilo = "UPPER" ->
            << <<"EXCLUSIVAMENTE">>, <<"APENAS">>, <<"SOMENTE">>, <<"OBRIGATORIAMENTE">>,
               <<"MARCA", "ESPECÍFICA">>, <<"MODELO", "ESPECÍFICO">> >>[i]

Estilos == {"lower", "Capital", "UPPER"}

RECURSIVE FrasesDe(_, _, _)
\* the phrases of S, from the i-th on, one after the other
FrasesDe(S, estilo, i) ==
    IF i > Len(palavras_suspeitas) THEN <<>>
    ELSE (IF i \in S THEN Frase(i, estilo) ELSE <<>>) \o FrasesDe(S, estilo, i + 1)

RECURSIVE Repetir(_, _)
Repetir(s, k) == IF k = 0 THEN <<>> ELSE s \o Repetir(s, k - 1)

Sufixos == { <<>>, <<"Marca">>, <<"Modelo", "Intel">> }

\* specifications: a plain text, then the phrases of S, then rep more
\* occurrences of the first phrase of S, then a suffix
Texto(S, estilo, rep, sufixo) ==
    LET primeira == IF S = {} THEN <<>>
                    ELSE Frase(CHOOSE i \in S : \A j \in S : i <= j, estilo)
    IN  <<"Intel", "i5">> \o FrasesDe(S, estilo, 1) \o Repetir(primeira, rep) \o sufixo

Textos ==
    { Texto(S, estilo, rep, sufixo) :
        S \in SUBSET (1..6), estilo \in Estilos,
        rep \in 0..MaxRepeticoes, sufixo \in Sufixos }

Item(descricao, especificacoes) ==
    [codigo |-> "001", descricao |-> descricao, quantidade |-> 10, unidade |-> "UN",
     especificacoes |-> especificacoes]

Licitacao(id, itens, participantes, data_fechamento) ==
    [id |-> id, orgao |-> "Teste Orgão", data_abertura |-> -120,
     data_fechamento |-> data_fechamento, valor_estimado |-> 100000,
     itens |-> itens, participantes |-> participantes]

Ids == {"PT-2024-001", "TEST-001"}

\* closing timestamps and clock values, in hours
Fechamentos == {-30, -1, 0, 23, 24, 48, 50, 71, 72, 73, 600}
Relogios == {0, 12}

\* values random.uniform(0.1, 0.6) can return, in hundredths
Sorteios == {10, 60}

\* return values a test gives the patched price lookup
Patches == {SemPatch, Patch(<<>>), Patch(<<0>>), Patch(<<-2500>>),
            Patch(<<2500>>), Patch(<<3500>>)}

ItensPreco == {<<>>} \cup { <<Item(d, EspecNormal)>> : d \in Descricoes }

LicitacoesPreco ==
    { Licitacao("TEST-001", it, ps, 600) : it \in ItensPreco, ps \in ListasParticipantes }

LicitacoesTexto ==
    {Licitacao("TEST-002", <<>>, <<>>, 600)}
    \cup { Licitacao("TEST-002", <<Item(DescricaoDell, t)>>, <<>>, 600) : t \in Textos }

LicitacoesCartel ==
    { Licitacao(id, <<>>, ps, 600) : id \in Ids, ps \in ListasParticipantes }

LicitacoesConcorrencia ==
    { Licitacao("TEST-003", <<>>, ps, 600) : ps \in ListasParticipantes }

LicitacoesPrazo ==
    { Licitacao("TEST-004", it, ps, f) :
        it \in {<<>>, <<Item(DescricaoDell, EspecNormal)>>},
        ps \in {<<>>, <<Part(TechSolutions, 4000, 1)>>},
        f \in Fechamentos }

EspecTresFrases == Texto({1, 2, 6}, "Capital", 0, <<>>)
EspecSeisFrases == Texto(1..6, "UPPER", 0, <<>>)

ItensAnalise ==
    {<<>>} \cup { <<Item(d, t)>> : d \in {DescricaoDell, DescricaoInexistente},
                                  t \in {EspecNormal, EspecTresFrases, EspecSeisFrases} }

LicitacoesAnalise ==
    { Licitacao(id, it, ps, f) :
        id \in Ids, it \in ItensAnalise, ps \in ListasCurtas,
        f \in {-600, -30, -1, 50, 600} }

\* the records a collected batch is made of
LicitacoesLote ==
    { Licitacao("TEST-001", <<Item(DescricaoDell, EspecNormal)>>,
                << Part(TechSolutions, 4000, 1) >>, 600),
      Licitacao("TEST-001", <<Item(DescricaoDell, EspecNormal)>>,
                << Part(TechSolutions, 4300, 1) >>, 600),
      Licitacao("TEST-001", <<Item(DescricaoDell, EspecNormal)>>,
                << Part(TechSolutions, 6000, 1), Part(DigitalDevices, 4500, 2) >>, 600),
      Licitacao("TEST-001", <<Item(DescricaoDell, EspecNormal)>>, <<>>, 600),
      Licitacao("TEST-001", <<>>, << Part(TechSolutions, 4000, 1) >>, -1),
      Licitacao("TEST-002", <<Item(DescricaoDell, EspecNormal)>>,
                << Part(TechSolutions, 4000, 1) >>, 600),
      Licitacao("TEST-002", <<Item(DescricaoInexistente, EspecTresFrases)>>,
                << Part(DigitalDevices, 4500, 1) >>, -1),
      Licitacao("PT-2024-001", <<Item(DescricaoDell, EspecNormal)>>,
                << Part(TechSolutions, 4000, 1) >>, 600),
      Licitacao("PT-2024-001", <<Item(DescricaoDell, EspecNormal)>>,
                << Part(TechSolutions, 6000, 1), Part(DigitalDevices, 4500, 2) >>, 600),
      Licitacao("PT-2024-001", <<>>, <<>>, 600) }

Lotes == SeqsAte(LicitacoesLote, MaxLote)

\* the records of the batches of the repeated runs: rated Baixo, Médio, Alto
\* and Crítico; the collector gives the same id to two records of a batch
RegistroBaixo ==
    Licitacao("TEST-001", <<Item(DescricaoDell, EspecNormal)>>,
              << Part(TechSolutions, 4000, 1) >>, 600)
RegistroMedio ==
    Licitacao("TEST-001", <<Item(DescricaoDell, EspecNormal)>>,
              << Part(TechSolutions, 4300, 1) >>, 600)
RegistroAlto ==
    Licitacao("PT-2024-001", <<Item(DescricaoDell, EspecNormal)>>,
              << Part(TechSolutions, 6000, 1), Part(DigitalDevices, 4500, 2) >>, 600)
RegistroCritico ==
    Licitacao("PT-2024-001", <<Item(DescricaoDell, EspecNormal)>>,
              << Part(TechSolutions, 4000, 1) >>, 600)

LotesExecucao ==
    { <<>>, <<RegistroBaixo>>, <<RegistroAlto>>,
      <<RegistroMedio, RegistroAlto>>, <<RegistroCritico, RegistroAlto>> }

ScoresTeste == {Num(0), Num(60), Num(80), Num(100)}

EvidenciasTeste ==
    { Evidencia(t, <<"Evidência de teste">>, s, <<>>) : t \in TipoEvidencia, s \in ScoresTeste }

ListasEvidencias == SeqsAte(EvidenciasTeste, MaxEvidencias)

\* one evidence item of every kind, for the calls of _gerar_recomendacoes
EvidenciasPorTipo ==
    { Evidencia(t, <<"Evidência de teste">>, Num(80), <<>>) : t \in TipoEvidencia }

ListasPorTipo == SeqsAte(EvidenciasPorTipo, MaxEvidencias)

ScoresNivel ==
    { Num(0), Num(30), Frac(3999, 100), Num(40), Num(50), Frac(5999, 100), Num(60),
      Num(70), Frac(7999, 100), Num(80), Num(85), Num(100), Num(120) }

\* the scores of the analyses handed to _criar_caso_processado
ScoresCaso == ScoresNivel \cup {Num(75)}

AnaliseDeTeste(lic, score) ==
    [licitacao_id   |-> lic.id,
     data_analise   |-> 0,
     score_geral    |-> score,
     nivel_risco    |-> DeterminarNivelRisco(score),
     evidencias     |-> <<>>,
     recomendacoes  |-> <<"Investigar">>,
     confiabilidade |-> Num(80)]

\* the descriptions the price lookup is called with
DescricoesPreco ==
    { <<"Notebook", "Dell">>, <<"Tablet", "Samsung">>, <<"Computador", "Desktop">>,
      DescricaoInexistente, DescricaoDell, <<"Samsung", "Tablet">>, <<"Desktop", "HP">> }

-----------------------------------------------------------------------------
(* to_dict of the three models, the arrays json.dump writes *)

LicitacaoToDict(lic) ==
    [id |-> lic.id, orgao |-> lic.orgao, data_abertura |-> lic.data_abertura,
     data_fechamento |-> lic.data_fechamento, valor_estimado |-> lic.valor_estimado,
     itens |-> [i \in 1..Len(lic.itens) |->
                    [codigo |-> lic.itens[i].codigo,
                     descricao |-> lic.itens[i].descricao,
                     quantidade |-> lic.itens[i].quantidade,
                     unidade |-> lic.itens[i].unidade,
                     especificacoes |-> lic.itens[i].especificacoes,
                     preco_estimado |-> <<>>]],
     participantes |-> [i \in 1..Len(lic.participantes) |->
                    [cnpj |-> lic.participantes[i].cnpj,
                     nome |-> lic.participantes[i].nome,
                     preco_proposto |-> lic.participantes[i].preco_proposto,
                     classificacao |-> lic.participantes[i].classificacao,
                     habilitado |-> lic.participantes[i].habilitado]]]

AnaliseToDict(a) ==
    [licitacao_id |-> a.licitacao_id, data_analise |-> a.data_analise,
     score_geral |-> a.score_geral, nivel_risco |-> a.nivel_risco,
     evidencias |-> [i \in 1..Len(a.evidencias) |->
                        [tipo |-> a.evidencias[i].tipo,
                         descricao |-> a.evidencias[i].descricao,
                         score |-> a.evidencias[i].score,
                         detalhes |-> a.evidencias[i].detalhes]],
     recomendacoes |-> a.recomendacoes, confiabilidade |-> a.confiabilidade,
     analista_responsavel |-> "Sistema IA"]

CasoToDict(c) == c

-----------------------------------------------------------------------------
(* The batch job: HiperfaturamentoTracker.executar_ciclo_completo *)

RelatorioInicial ==
    [licitacoes_coletadas |-> 0, licitacoes_analisadas |-> 0,
     casos_suspeitos |-> 0, erros |-> <<>>]

SemChamada == [metodo |-> "nenhum"]

SemFalhas == [mkdir |-> FALSE, coleta |-> FALSE, analise |-> <<>>, escrita |-> {}]

SemLeitura == [arquivo |-> "nenhum"]

arquivos == <<arq_licitacoes, arq_analises, arq_casos>>
locais   == <<licitacoes, analises, casos>>
ambiente == <<execucao, falhas, truncados, saida, leitura>>

Init ==
    /\ pc = "inicio"
    /\ agora = 0
    /\ licitacoes = <<>>
    /\ analises = <<>>
    /\ casos = <<>>
    /\ relatorio = RelatorioInicial
    /\ arq_licitacoes = <<>>
    /\ arq_analises = <<>>
    /\ arq_casos = <<>>
    /\ chamada = SemChamada
    /\ execucao = 0
    /\ falhas = SemFalhas
    /\ truncados = {}
    /\ saida = <<>>
    /\ leitura = SemLeitura

\* 1. self.collector.coletar_licitacoes(dias_retroativos)
Coletar ==
    /\ pc = "inicio"
    /\ \E lote \in Lotes, now \in Relogios :
          /\ licitacoes' = lote
          /\ agora' = now
          /\ relatorio' = [relatorio EXCEPT !.licitacoes_coletadas = Len(lote)]
          /\ pc' = IF lote # <<>> THEN "salvar_licitacoes" ELSE "fim"
    /\ UNCHANGED <<analises, casos, arquivos, chamada, ambiente>>

\* variant of SalvarLicitacoes: the records are not written at this point
SalvarLicitacoesAdiado ==
    /\ pc = "salvar_licitacoes"
    /\ pc' = "analisar"
    /\ UNCHANGED <<agora, locais, relatorio, arquivos, chamada, ambiente>>

SalvarLicitacoes ==
    /\ pc = "salvar_licitacoes"
    /\ arq_licitacoes' = <<[i \in 1..Len(licitacoes) |-> LicitacaoToDict(licitacoes[i])]>>
    /\ pc' = "analisar"
    /\ UNCHANGED <<agora, locais, relatorio, arq_analises, arq_casos, chamada, ambiente>>

\* 2. self._analisar_licitacoes(licitacoes)
Analisar ==
    /\ pc = "analisar"
    /\ \E sorteios \in [1..Len(licitacoes) -> Sorteios] :
          LET lista == AnalisarLicitacoes(licitacoes, agora, sorteios)
          IN  /\ analises' = lista
              /\ relatorio' = [relatorio EXCEPT !.licitacoes_analisadas = Len(lista)]
              /\ pc' = IF lista # <<>> THEN "salvar_analises" ELSE "fim"
    /\ UNCHANGED <<agora, licitacoes, casos, arquivos, chamada, ambiente>>

SalvarAnalises ==
    /\ pc = "salvar_analises"
    /\ arq_analises' = <<[i \in 1..Len(analises) |-> AnaliseToDict(analises[i])]>>
    /\ pc' = "processar"
    /\ UNCHANGED <<agora, locais, relatorio, arq_licitacoes, arq_casos, chamada, ambiente>>

\* 3. self._processar_casos(licitacoes, analises)
Processar ==
    /\ pc = "processar"
    /\ LET cs == ProcessarCasos(licitacoes, analises)
       IN  /\ casos' = cs
           /\ relatorio' = [relatorio EXCEPT !.casos_suspeitos = CasosSuspeitos(cs)]
           /\ pc' = IF cs # <<>> THEN "salvar_casos" ELSE "fim"
    /\ UNCHANGED <<agora, licitacoes, analises, arquivos, chamada, ambiente>>

SalvarCasos ==
    /\ pc = "salvar_casos"
    /\ arq_casos' = <<[i \in 1..Len(casos) |-> CasoToDict(casos[i])]>>
    /\ pc' = "fim"
    /\ UNCHANGED <<agora, locais, relatorio, arq_licitacoes, arq_analises, chamada, ambiente>>

\* return relatorio
Retornar ==
    /\ pc = "fim"
    /\ pc' = "retornou"
    /\ UNCHANGED <<agora, locais, relatorio, arquivos, chamada, ambiente>>

Next ==
    \/ Coletar
    \/ SalvarLicitacoes
    \/ Analisar
    \/ SalvarAnalises
    \/ Processar
    \/ SalvarCasos
    \/ Retornar

Spec == Init /\ [][Next]_vars

-----------------------------------------------------------------------------
(* Direct calls of the analyzer's methods, as the unit tests make them *)

ciclo == <<pc, agora, licitacoes, analises, casos, relatorio, arquivos, ambiente>>

ChamarAnalisarPrecoExcessivo ==
    /\ chamada = SemChamada
    /\ \E lic \in LicitacoesPreco, patch \in Patches :
          chamada' = [metodo |-> "_analisar_preco_excessivo", licitacao |-> lic,
                      patch |-> patch, retorno |-> AnalisarPrecoExcessivo(lic, patch)]
    /\ UNCHANGED ciclo

ChamarAnalisarEspecificacoesTailorMade ==
    /\ chamada = SemChamada
    /\ \E lic \in LicitacoesTexto :
          chamada' = [metodo |-> "_analisar_especificacoes_tailor_made", licitacao |-> lic,
                      retorno |-> AnalisarEspecificacoesTailorMade(lic)]
    /\ UNCHANGED ciclo

ChamarAnalisarEmpresaCartel ==
    /\ chamada = SemChamada
    /\ \E lic \in LicitacoesCartel, sorteio \in Sorteios :
          chamada' = [metodo |-> "_analisar_empresa_cartel", licitacao |-> lic,
                      sorteio |-> sorteio, retorno |-> AnalisarEmpresaCartel(lic, sorteio)]
    /\ UNCHANGED ciclo

ChamarAnalisarBaixaConcorrencia ==
    /\ chamada = SemChamada
    /\ \E lic \in LicitacoesConcorrencia :
          chamada' = [metodo |-> "_analisar_baixa_concorrencia", licitacao |-> lic,
                      retorno |-> AnalisarBaixaConcorrencia(lic)]
    /\ UNCHANGED ciclo

ChamarAnalisarPrazoSuspeito ==
    /\ chamada = SemChamada
    /\ \E lic \in LicitacoesPrazo, now \in Relogios :
          chamada' = [metodo |-> "_analisar_prazo_suspeito", licitacao |-> lic,
                      now |-> now, retorno |-> AnalisarPrazoSuspeito(lic, now)]
    /\ UNCHANGED ciclo

ChamarAnalisarLicitacao ==
    /\ chamada = SemChamada
    /\ \E lic \in LicitacoesAnalise, now \in Relogios, sorteio \in Sorteios :
          chamada' = [metodo |-> "analisar_licitacao", licitacao |-> lic,
                      now |-> now, sorteio |-> sorteio,
                      retorno |-> AnalisarLicitacao(lic, now, sorteio)]
    /\ UNCHANGED ciclo

ChamarCalcularScoreGeral ==
    /\ chamada = SemChamada
    /\ \E evidencias \in ListasEvidencias :
          chamada' = [metodo |-> "_calcular_score_geral", evidencias |-> evidencias,
                      retorno |-> CalcularScoreGeral(evidencias)]
    /\ UNCHANGED ciclo

ChamarGerarRecomendacoes ==
    /\ chamada = SemChamada
    /\ \E evidencias \in ListasPorTipo, score \in ScoresNivel :
          chamada' = [metodo |-> "_gerar_recomendacoes", evidencias |-> evidencias,
                      score |-> score, retorno |-> GerarRecomendacoes(evidencias, score)]
    /\ UNCHANGED ciclo

ChamarCalcularConfiabilidade ==
    /\ chamada = SemChamada
    /\ \E evidencias \in ListasEvidencias :
          chamada' = [metodo |-> "_calcular_confiabilidade", evidencias |-> evidencias,
                      retorno |-> CalcularConfiabilidade(evidencias)]
    /\ UNCHANGED ciclo

\* two calls in a row, so that their results can be compared
ChamarDeterminarNivelRisco ==
    /\ \/ chamada = SemChamada
       \/ chamada.metodo = "_determinar_nivel_risco" /\ chamada.anterior = <<>>
    /\ \E score \in ScoresNivel :
          chamada' = [metodo |-> "_determinar_nivel_risco", score |-> score,
                      retorno |-> DeterminarNivelRisco(score),
                      anterior |-> IF chamada.metodo = "_determinar_nivel_risco"
                                   THEN <<[score |-> chamada.score,
                                           retorno |-> chamada.retorno]>>
                                   ELSE <<>>]
    /\ UNCHANGED ciclo

\* analisar_licitacao called again on the record of the last call, with the
\* same clock value and a fresh draw of the win-rate stand-in
RepetirAnalisarLicitacao ==
    /\ chamada.metodo = "analisar_licitacao"
    /\ "anterior" \notin DOMAIN chamada
    /\ \E sorteio \in Sorteios :
          chamada' = [metodo |-> "analisar_licitacao", licitacao |-> chamada.licitacao,
                      now |-> chamada.now, sorteio |-> sorteio,
                      retorno |-> AnalisarLicitacao(chamada.licitacao, chamada.now, sorteio),
                      anterior |-> chamada]
    /\ UNCHANGED ciclo

\* HiperfaturamentoAnalyzer(): the configuration of a fresh analyzer
ChamarInit ==
    /\ chamada = SemChamada
    /\ chamada' = [metodo |-> "__init__", thresholds |-> thresholds, pesos |-> pesos]
    /\ UNCHANGED ciclo

ChamarObterPrecoMercado ==
    /\ chamada = SemChamada
    /\ \E produto \in DescricoesPreco :
          chamada' = [metodo |-> "_obter_preco_mercado", produto |-> produto,
                      retorno |-> ObterPrecoMercado(produto)]
    /\ UNCHANGED ciclo

ChamarCriarCasoProcessado ==
    /\ chamada = SemChamada
    /\ \E lic \in {RegistroBaixo, RegistroAlto}, score \in ScoresCaso :
          LET analise == AnaliseDeTeste(lic, score)
          IN  chamada' = [metodo |-> "_criar_caso_processado", licitacao |-> lic,
                          analise |-> analise,
                          retorno |-> CriarCasoProcessado(lic, analise)]
    /\ UNCHANGED ciclo

\* _analisar_licitacoes and _processar_casos over a collected batch
ChamarProcessarCasos ==
    /\ chamada = SemChamada
    /\ \E lote \in LotesExecucao, now \in Relogios :
          LET lista == AnalisarLicitacoes(lote, now, [i \in 1..Len(lote) |-> 10])
          IN  chamada' = [metodo |-> "_processar_casos", licitacoes |-> lote,
                          analises |-> lista, retorno |-> ProcessarCasos(lote, lista)]
    /\ UNCHANGED ciclo

NextChamadas ==
    \/ ChamarAnalisarPrecoExcessivo
    \/ ChamarAnalisarEspecificacoesTailorMade
    \/ ChamarAnalisarEmpresaCartel
    \/ ChamarAnalisarBaixaConcorrencia
    \/ ChamarAnalisarPrazoSuspeito
    \/ ChamarAnalisarLicitacao
    \/ ChamarCalcularScoreGeral
    \/ ChamarGerarRecomendacoes
    \/ ChamarCalcularConfiabilidade
    \/ ChamarDeterminarNivelRisco
    \/ RepetirAnalisarLicitacao
    \/ ChamarInit
    \/ ChamarObterPrecoMercado
    \/ ChamarCriarCasoProcessado
    \/ ChamarProcessarCasos

SpecChamadas == Init /\ [][NextChamadas]_vars

-----------------------------------------------------------------------------
(* Repeated runs of the batch job run_tracker.main, with failures of its    *)
(* dependencies, beside a reader of the API                                 *)

\* the failures injected into the current run so far
NumFalhas(f) ==
    (IF f.mkdir THEN 1 ELSE 0) + (IF f.coleta THEN 1 ELSE 0)
    + Cardinality({i \in 1..Len(f.analise) : f.analise[i] # "nenhuma"})
    + Cardinality(f.escrita)

PodeFalhar == NumFalhas(falhas) < MaxFalhas

\* datetime.now() of the n-th run: the job is started every 12 hours
HoraDaExecucao(n) == 12 * (n - 1)

\* main: HiperfaturamentoTracker() and the first lines of executar_ciclo_completo
IniciarMain ==
    /\ pc \in {"inicio", "saiu"}
    /\ execucao < MaxExecucoes
    /\ execucao' = execucao + 1
    /\ agora' = HoraDaExecucao(execucao + 1)
    /\ licitacoes' = <<>>
    /\ analises' = <<>>
    /\ casos' = <<>>
    /\ relatorio' = RelatorioInicial
    /\ \/ /\ falhas' = SemFalhas
          /\ saida' = <<>>
          /\ pc' = "coletar"
       \/ /\ MaxFalhas > 0        \* data_dir.mkdir raises: except of main, sys.exit(1)
          /\ falhas' = [SemFalhas EXCEPT !.mkdir = TRUE]
          /\ saida' = <<1>>
          /\ pc' = "saiu"
    /\ UNCHANGED <<arquivos, chamada, truncados, leitura>>

\* 1. self.collector.coletar_licitacoes(dias_retroativos), which returns a
\* batch or raises into the except of executar_ciclo_completo
ColetarOuLevantar ==
    /\ pc = "coletar"
    /\ \/ \E lote \in LotesExecucao :
             /\ licitacoes' = lote
             /\ relatorio' = [relatorio EXCEPT !.licitacoes_coletadas = Len(lote)]
             /\ pc' = IF lote # <<>> THEN "abrir_licitacoes" ELSE "fim"
             /\ UNCHANGED falhas
       \/ /\ PodeFalhar
          /\ falhas' = [falhas EXCEPT !.coleta = TRUE]
          /\ relatorio' = [relatorio EXCEPT !.erros = Append(@, "Erro no ciclo completo")]
          /\ pc' = "fim"
          /\ UNCHANGED licitacoes
    /\ UNCHANGED <<agora, analises, casos, arquivos, chamada,
                   execucao, truncados, saida, leitura>>

\* open(file, 'w'): the file is truncated, or open raises and _salvar_* logs it
AbrirArquivo(nome, pc_gravar, pc_depois) ==
    /\ \/ /\ truncados' = truncados \cup {nome}
          /\ pc' = pc_gravar
          /\ UNCHANGED falhas
       \/ /\ PodeFalhar
          /\ falhas' = [falhas EXCEPT !.escrita = @ \cup {nome}]
          /\ pc' = pc_depois
          /\ UNCHANGED truncados
    /\ UNCHANGED <<agora, locais, relatorio, arquivos, chamada, execucao, saida, leitura>>

\* json.dump raises before the document is complete; _salvar_* logs it
FalharGravacao(nome, pc_depois) ==
    /\ PodeFalhar
    /\ falhas' = [falhas EXCEPT !.escrita = @ \cup {nome}]
    /\ pc' = pc_depois
    /\ UNCHANGED <<agora, locais, relatorio, arquivos, chamada,
                   execucao, truncados, saida, leitura>>

AbrirLicitacoes ==
    /\ pc = "abrir_licitacoes"
    /\ AbrirArquivo("licitacoes", "gravar_licitacoes", "analisar")

GravarLicitacoes ==
    /\ pc = "gravar_licitacoes"
    /\ \/ /\ arq_licitacoes' =
                <<[i \in 1..Len(licitacoes) |-> LicitacaoToDict(licitacoes[i])]>>
          /\ truncados' = truncados \ {"licitacoes"}
          /\ pc' = "analisar"
          /\ UNCHANGED <<agora, locais, relatorio, arq_analises, arq_casos, chamada,
                         execucao, falhas, saida, leitura>>
       \/ FalharGravacao("licitacoes", "analisar")

\* 2. self._analisar_licitacoes(licitacoes)
AnalisarOuFalhar ==
    /\ pc = "analisar"
    /\ \E falhas_analise \in [1..Len(licitacoes) -> FalhasDeAnalise] :
          LET lista == AnalisarLicitacoesCom(licitacoes, agora,
                           [i \in 1..Len(licitacoes) |-> 10], falhas_analise)
              novas == [falhas EXCEPT !.analise = falhas_analise]
          IN  /\ NumFalhas(novas) <= MaxFalhas
              /\ falhas' = novas
              /\ analises' = lista
              /\ relatorio' = [relatorio EXCEPT !.licitacoes_analisadas = Len(lista)]
              /\ pc' = IF lista # <<>> THEN "abrir_analises" ELSE "fim"
    /\ UNCHANGED <<agora, licitacoes, casos, arquivos, chamada,
                   execucao, truncados, saida, leitura>>

AbrirAnalises ==
    /\ pc = "abrir_analises"
    /\ AbrirArquivo("analises", "gravar_analises", "processar")

GravarAnalises ==
    /\ pc = "gravar_analises"
    /\ \/ /\ arq_analises' = <<[i \in 1..Len(analises) |-> AnaliseToDict(analises[i])]>>
          /\ truncados' = truncados \ {"analises"}
          /\ pc' = "processar"
          /\ UNCHANGED <<agora, locais, relatorio, arq_licitacoes, arq_casos, chamada,
                         execucao, falhas, saida, leitura>>
       \/ FalharGravacao("analises", "processar")

\* 3. self._processar_casos(licitacoes, analises)
ProcessarCasosDaExecucao ==
    /\ pc = "processar"
    /\ LET cs == ProcessarCasos(licitacoes, analises)
       IN  /\ casos' = cs
           /\ relatorio' = [relatorio EXCEPT !.casos_suspeitos = CasosSuspeitos(cs)]
           /\ pc' = IF cs # <<>> THEN "abrir_casos" ELSE "fim"
    /\ UNCHANGED <<agora, licitacoes, analises, arquivos, chamada, ambiente>>

AbrirCasos ==
    /\ pc = "abrir_casos"
    /\ AbrirArquivo("casos", "gravar_casos", "fim")

GravarCasos ==
    /\ pc = "gravar_casos"
    /\ \/ /\ arq_casos' = <<[i \in 1..Len(casos) |-> CasoToDict(casos[i])]>>
          /\ truncados' = truncados \ {"casos"}
          /\ pc' = "fim"
          /\ UNCHANGED <<agora, locais, relatorio, arq_licitacoes, arq_analises, chamada,
                         execucao, falhas, saida, leitura>>
       \/ FalharGravacao("casos", "fim")

\* main after executar_ciclo_completo returned: the report and the statistics
\* are logged (obter_estatisticas catches what it raises) and main returns
SairMain ==
    /\ pc = "retornou"
    /\ saida' = <<0>>
    /\ pc' = "saiu"
    /\ UNCHANGED <<agora, locais, relatorio, arquivos, chamada,
                   execucao, falhas, truncados, leitura>>

\* what json.load gives DataService for a store file: [] when the file does
\* not exist, and [] through the except when it holds an incomplete document
Carregar(nome, arq) ==
    IF nome \in truncados THEN <<>>
    ELSE IF arq = <<>> THEN <<>>
    ELSE arq[1]

\* DataService._carregar_casos, at any moment of a run
CarregarCasos ==
    /\ leitura = SemLeitura
    /\ execucao > 0
    /\ leitura' = [arquivo    |-> "casos",
                   retorno    |-> Carregar("casos", arq_casos),
                   gravado    |-> arq_casos,
                   novo       |-> [i \in 1..Len(casos) |-> CasoToDict(casos[i])],
                   truncado   |-> "casos" \in truncados,
                   escrevendo |-> pc = "gravar_casos"]
    /\ UNCHANGED <<pc, agora, locais, relatorio, arquivos, chamada,
                   execucao, falhas, truncados, saida>>

\* DataService._carregar_analises, at any moment of a run
CarregarAnalises ==
    /\ leitura = SemLeitura
    /\ execucao > 0
    /\ leitura' = [arquivo    |-> "analises",
                   retorno    |-> Carregar("analises", arq_analises),
                   gravado    |-> arq_analises,
                   novo       |-> [i \in 1..Len(analises) |-> AnaliseToDict(analises[i])],
                   truncado   |-> "analises" \in truncados,
                   escrevendo |-> pc = "gravar_analises"]
    /\ UNCHANGED <<pc, agora, locais, relatorio, arquivos, chamada,
                   execucao, falhas, truncados, saida>>

NextExecucoes ==
    \/ IniciarMain
    \/ ColetarOuLevantar
    \/ AbrirLicitacoes
    \/ GravarLicitacoes
    \/ AnalisarOuFalhar
    \/ AbrirAnalises
    \/ GravarAnalises
    \/ ProcessarCasosDaExecucao
    \/ AbrirCasos
    \/ GravarCasos
    \/ Retornar
    \/ SairMain
    \/ CarregarCasos
    \/ CarregarAnalises

SpecExecucoes == Init /\ [][NextExecucoes]_vars

-----------------------------------------------------------------------------
(* The read API: api/data_service.py, api/routes.py and api/main.py *)

\* the words of a text, as far as `in` on strings distinguishes them
Palavras(texto) ==
    CASE texto = "Teste Orgão"            -> <<"Teste", "Orgão">>
      [] texto = "Ministério da Educação" -> <<"Ministério", "da", "Educação">>
      [] OTHER                            -> <<texto>>

\* f"{x:.0f}": ties to the even integer
Fmt0(a) ==
    LET t == Abs(a.n) \div a.d
        r == Abs(a.n) % a.d
        up == 2 * r > a.d \/ (2 * r = a.d /\ t % 2 = 1)
        m == IF up THEN t + 1 ELSE t
    IN  IF a.n < 0 THEN -m ELSE m

\* caso.get(chave, padrao)
Get(caso, chave, padrao) == IF chave \in DOMAIN caso THEN caso[chave] ELSE padrao

RECURSIVE Soma(_)
Soma(s) == IF s = <<>> THEN 0 ELSE s[1] + Soma(Tail(s))

\* one element of the list get_noticias returns
Noticia(caso) ==
    [titulo               |-> <<"ALERTA: ">> \o caso.titulo,    \* after the siren sign
     resumo               |-> <<"Detectado superfaturamento de ", Fmt0(caso.diferenca_percentual),
                                "% em licitação de ">> \o caso.produto
                              \o <<". Valor estimado: R$ ", caso.valor_estimado>>,
     data                 |-> caso.data_abertura,
     orgao                |-> caso.orgao,
     valor                |-> <<"R$ ", caso.valor_estimado>>,
     risco                |-> caso.nivel_risco,
     risk_level           |-> caso.nivel_risco,
     risk_score           |-> caso.risk_score,
     valor_superfaturado  |-> Get(caso, "valor_superfaturado", Get(caso, "economia_potencial", 0)),
     status               |-> caso.status,
     empresa              |-> caso.empresa_vencedora,
     empresa_vencedora    |-> caso.empresa_vencedora,
     cnpj                 |-> caso.cnpj,
     produto              |-> caso.produto,
     valor_estimado       |-> caso.valor_estimado,
     diferenca_percentual |-> caso.diferenca_percentual,
     preco_edital         |-> Get(caso, "preco_edital", 0),
     preco_mercado        |-> Get(caso, "preco_mercado", 0),
     quantidade           |-> Get(caso, "quantidade", 0),
     priority_level       |-> Get(caso, "priority_level", "Média"),
     evidencias           |-> Get(caso, "evidencias", <<>>),
     envolvidos           |-> Get(caso, "envolvidos", <<>>)]

\* DataService.get_noticias: the risk filter, then the limit, then the format
GetNoticias(limit, filtro_risco) ==
    LET carregados == Carregar("casos", arq_casos)
        filtrados  == IF filtro_risco # <<>>
                      THEN SelectSeq(carregados,
                               LAMBDA c : LowerTok(c.nivel_risco) = LowerTok(filtro_risco[1]))
                      ELSE carregados
        limitados  == SubSeq(filtrados, 1,
                             IF limit < Len(filtrados) THEN limit ELSE Len(filtrados))
    IN  [i \in 1..Len(limitados) |-> Noticia(limitados[i])]

EstatisticasZeradas ==
    [total_licitacoes_analisadas |-> 0, casos_suspeitos |-> 0,
     valor_superfaturado_total |-> 0, taxa_suspeicao |-> Num(0)]

\* sum(max(0, valor) for c in casos)
ValorSuperfaturadoTotal(cs) ==
    Soma([i \in 1..Len(cs) |->
            LET v == Get(cs[i], "valor_superfaturado", Get(cs[i], "economia_potencial", 0))
            IN  IF v > 0 THEN v ELSE 0])

\* DataService.get_estatisticas
GetEstatisticas ==
    LET cs == Carregar("casos", arq_casos)
        as == Carregar("analises", arq_analises)
    IN  IF as = <<>> THEN EstatisticasZeradas
        ELSE [total_licitacoes_analisadas |-> Len(as),
              casos_suspeitos             |-> Len(cs),
              valor_superfaturado_total   |-> ValorSuperfaturadoTotal(cs),
              taxa_suspeicao              |-> Frac(Len(cs) * 100, Len(as))]

\* DataService.get_casos_por_orgao: one entry per issuing body, in the order
\* of first occurrence
GetCasosPorOrgao ==
    LET cs == Carregar("casos", arq_casos)
        primeiros == SelectSeq([i \in 1..Len(cs) |-> i],
                         LAMBDA i : \A j \in 1..(i - 1) : cs[j].orgao # cs[i].orgao)
    IN  [k \in 1..Len(primeiros) |->
            LET do_orgao == SelectSeq(cs, LAMBDA c : c.orgao = cs[primeiros[k]].orgao)
            IN  [orgao    |-> cs[primeiros[k]].orgao,
                 casos    |-> Len(do_orgao),
                 economia |-> Soma([i \in 1..Len(do_orgao) |->
                                      Get(do_orgao[i], "economia_potencial", 0)])]]

\* DataService.get_caso_detalhado: the first case of the id, {} as <<>>
GetCasoDetalhado(caso_id) ==
    LET achados == SelectSeq(Carregar("casos", arq_casos), LAMBDA c : Get(c, "id", "") = caso_id)
    IN  IF achados = <<>> THEN <<>> ELSE <<achados[1]>>

\* HiperfaturamentoTracker.obter_estatisticas
ObterEstatisticas ==
    IF "casos" \in truncados THEN EstatisticasZeradas       \* json.load raises
    ELSE IF arq_casos = <<>> THEN EstatisticasZeradas       \* no file
    ELSE LET cs == arq_casos[1]
             total_casos == Len(cs)
             suspeitos == Len(SelectSeq(cs, LAMBDA c : Get(c, "nivel_risco", "") \in {"Alto", "Crítico"}))
         IN  [total_licitacoes_analisadas |-> total_casos,
              casos_suspeitos             |-> suspeitos,
              valor_superfaturado_total   |->
                  Soma([i \in 1..Len(cs) |->
                          LET v == Get(cs[i], "valor_superfaturado", 0)
                          IN  IF v > 0 THEN v ELSE 0]),
              taxa_suspeicao              |-> IF total_casos > 0
                                              THEN Frac(suspeitos * 100, total_casos)
                                              ELSE Num(0)]

\* the enums of api/models.py that validate the query of GET /cases
RiskLevel == {"Alto", "Médio", "Baixo"}
PriorityLevels == {"Crítica", "Alta", "Média", "Baixa"}

\* APIResponse(success=True, ...): timestamp is filled by its default factory
APIResponse(message, data) ==
    [status_code |-> 200,
     content |-> [success |-> TRUE, message |-> message, data |-> <<data>>,
                  timestamp |-> "datetime.now()"]]

\* http_exception_handler of main.py, with data = None as <<>>
HttpExceptionHandler(status_code, detail) ==
    [status_code |-> status_code,
     content |-> [success |-> FALSE, message |-> detail, data |-> <<>>]]

\* the answer of FastAPI to a query parameter outside its declared type
RequestValidationError ==
    [status_code |-> 422, content |-> [detail |-> <<"value is not a valid enumeration member">>]]

\* str(e) of what the data service raises when a stored case lacks a key
TextoDaExcecao == "'titulo'"
FalhasAPI == {"nenhuma", "KeyError"}

\* get_statistics
GetStatistics(falha) ==
    IF falha # "nenhuma"
    THEN HttpExceptionHandler(500, <<"Erro ao buscar estatísticas: ", TextoDaExcecao>>)
    ELSE APIResponse(<<"Estatísticas recuperadas com sucesso">>, GetEstatisticas)

\* get_cases: the issuing-body filter is applied to what get_noticias returned
GetCases(q, falha) ==
    IF q.risk_level # <<>> /\ q.risk_level[1] \notin RiskLevel THEN RequestValidationError
    ELSE IF falha # "nenhuma"
    THEN HttpExceptionHandler(500, <<"Erro ao buscar casos: ", TextoDaExcecao>>)
    ELSE LET noticias == GetNoticias(q.limit, q.risk_level)
             cases == IF q.orgao # <<>>
                      THEN SelectSeq(noticias,
                               LAMBDA case : Contains(Lower(Palavras(Get(case, "orgao", ""))),
                                                      Lower(Palavras(q.orgao[1]))))
                      ELSE noticias
         IN  APIResponse(<<"Recuperados ", Len(cases), " casos">>, cases)

\* get_case_detail
GetCaseDetail(case_id, falha) ==
    IF falha # "nenhuma"
    THEN HttpExceptionHandler(500, <<"Erro ao buscar caso: ", TextoDaExcecao>>)
    ELSE LET case == GetCasoDetalhado(case_id)
         IN  IF case = <<>>
             THEN HttpExceptionHandler(404, <<"Caso ", case_id, " não encontrado">>)
             ELSE APIResponse(<<"Caso recuperado com sucesso">>, case[1])

\* get_cases_by_orgao
GetCasesByOrgao(falha) ==
    IF falha # "nenhuma"
    THEN HttpExceptionHandler(500, <<"Erro ao buscar casos por órgão: ", TextoDaExcecao>>)
    ELSE APIResponse(<<"Casos por órgão recuperados com sucesso">>, GetCasosPorOrgao)

\* the routes of the router under the prefix /api, in the order of their
\* registration
Rotas ==
    << [path |-> <<"statistics">>,         endpoint |-> "get_statistics"],
       [path |-> <<"cases">>,              endpoint |-> "get_cases"],
       [path |-> <<"cases", "{case_id}">>, endpoint |-> "get_case_detail"],
       [path |-> <<"cases", "by-orgao">>,  endpoint |-> "get_cases_by_orgao"] >>

\* a route matches a path when every segment is equal or is a path parameter
Casa(rota, caminho) ==
    /\ Len(rota.path) = Len(caminho)
    /\ \A i \in 1..Len(caminho) : rota.path[i] = caminho[i] \/ rota.path[i] = "{case_id}"

\* the router answers with the first route that matches
Despachar(caminho, q, falha) ==
    LET casam == {i \in 1..Len(Rotas) : Casa(Rotas[i], caminho)}
        rota  == Rotas[CHOOSE i \in casam : \A j \in casam : i <= j]
    IN  CASE rota.endpoint = "get_statistics"     -> GetStatistics(falha)
          [] rota.endpoint = "get_cases"          -> GetCases(q, falha)
          [] rota.endpoint = "get_case_detail"    -> GetCaseDetail(caminho[2], falha)
          [] rota.endpoint = "get_cases_by_orgao" -> GetCasesByOrgao(falha)

\* the records of the batches the API is asked about
RegistroAltoMEC ==
    [RegistroAlto EXCEPT !.id = "PT-2024-002", !.orgao = "Ministério da Educação"]
RegistroCriticoMEC ==
    [RegistroCritico EXCEPT !.id = "PT-2024-003", !.orgao = "Ministério da Educação"]

LotesAPI ==
    { <<RegistroBaixo>>,
      <<RegistroAlto, RegistroAltoMEC>>,
      <<RegistroMedio, RegistroAlto, RegistroAltoMEC>>,
      <<RegistroCriticoMEC, RegistroMedio, RegistroAlto>> }

\* executar_ciclo_completo from its first line to its return, nothing failing
ExecutarLote ==
    /\ pc = "inicio"
    /\ chamada = SemChamada          \* the store is written before it is asked about
    /\ \E lote \in LotesAPI :
        \E lista \in {AnalisarLicitacoes(lote, agora, [i \in 1..Len(lote) |-> 10])} :
          \E cs \in {IF lista # <<>> THEN ProcessarCasos(lote, lista) ELSE <<>>} :
              /\ licitacoes' = lote
              /\ analises' = lista
              /\ casos' = cs
              /\ arq_licitacoes' = IF lote # <<>>
                                   THEN <<[i \in 1..Len(lote) |-> LicitacaoToDict(lote[i])]>>
                                   ELSE arq_licitacoes
              /\ arq_analises' = IF lista # <<>>
                                 THEN <<[i \in 1..Len(lista) |-> AnaliseToDict(lista[i])]>>
                                 ELSE arq_analises
              /\ arq_casos' = IF cs # <<>>
                              THEN <<[i \in 1..Len(cs) |-> CasoToDict(cs[i])]>>
                              ELSE arq_casos
              /\ relatorio' = [licitacoes_coletadas  |-> Len(lote),
                               licitacoes_analisadas |-> Len(lista),
                               casos_suspeitos       |-> CasosSuspeitos(cs),
                               erros                 |-> <<>>]
    /\ pc' = "retornou"
    /\ UNCHANGED <<agora, chamada, ambiente>>

Opcional(S) == {<<>>} \cup {<<x>> : x \in S}

SemQuery == [limit |-> 10, risk_level |-> <<>>, orgao |-> <<>>, priority_level |-> <<>>]

\* GET /api/cases with a query
GetApiCases ==
    /\ chamada = SemChamada
    /\ \E limit \in 1..MaxLimit,
          risk_level \in Opcional(RiskLevel \cup {"Crítico"}),
          orgao \in Opcional({"TESTE", "educação"}),
          priority_level \in Opcional(PriorityLevels),
          falha \in FalhasAPI :
          LET q == [limit |-> limit, risk_level |-> risk_level, orgao |-> orgao,
                    priority_level |-> priority_level]
          IN  chamada' = [metodo |-> "GET", caminho |-> <<"cases">>, q |-> q,
                          falha |-> falha,
                          resposta |-> Despachar(<<"cases">>, q, falha)]
    /\ UNCHANGED ciclo

\* GET /api/statistics, /api/cases/by-orgao and /api/cases/<id>
GetApiCaminho ==
    /\ chamada = SemChamada
    /\ \E caminho \in {<<"statistics">>, <<"cases", "by-orgao">>,
                       <<"cases", "PT-2024-001">>, <<"cases", "TEST-999">>},
          falha \in FalhasAPI :
          chamada' = [metodo |-> "GET", caminho |-> caminho, q |-> SemQuery,
                      falha |-> falha,
                      resposta |-> Despachar(caminho, SemQuery, falha)]
    /\ UNCHANGED ciclo

\* tracker.obter_estatisticas(), as run_tracker.main and the tests call it
ChamarObterEstatisticas ==
    /\ chamada = SemChamada
    /\ chamada' = [metodo |-> "obter_estatisticas", retorno |-> ObterEstatisticas]
    /\ UNCHANGED ciclo

NextAPI ==
    \/ ExecutarLote
    \/ GetApiCases
    \/ GetApiCaminho
    \/ ChamarObterEstatisticas

SpecAPI == Init /\ [][NextAPI]_vars

-----------------------------------------------------------------------------
(* PNCPCompleto.consultar_empresa of api/pncp_service.py, one request at a
   step: chamada holds the frame of the innermost call *)

\* ''.join(filter(str.isdigit, cnpj))
CnpjLimpo(cnpj) ==
    CASE cnpj = "12.345.678/0001-90" -> "12345678000190"
      [] cnpj = "98.765.432/0001-10" -> "98765432000110"
      [] OTHER                       -> cnpj

Cnpjs == {"12.345.678/0001-90", "98.765.432/0001-10", "11222333000181", "00000000000191"}

\* the bodies ReceitaWS answers a 200 with
DadosReceita ==
    [status : {"OK"}, nome : {"Tech Solutions LTDA"}, situacao : {"ATIVA", "BAIXADA"},
     capital_social : {"100000.00"}, qsa : {<<>>, <<[nome |-> "Socio", qual |-> "49"]>>}]
    \cup {[status |-> "ERROR"]}

\* the dict built from a 200 whose status is not ERROR
DadosDaEmpresa(dados) ==
    [razao_social   |-> dados.nome,
     situacao       |-> dados.situacao,
     capital_social |-> dados.capital_social,
     socios         |-> [i \in 1..Len(dados.qsa) |->
                           [nome |-> dados.qsa[i].nome, qualificacao |-> dados.qsa[i].qual]]]

\* consultar_empresa(cnpj) is entered from outside
ChamarConsultarEmpresa ==
    /\ chamada = SemChamada
    /\ \E cnpj \in Cnpjs :
          chamada' = [metodo |-> "consultar_empresa", cnpj |-> cnpj,
                      url |-> <<"https://www.receitaws.com.br/v1/cnpj/", CnpjLimpo(cnpj)>>,
                      pc |-> "try", profundidade |-> 1, pedidos |-> 0, espera |-> 0,
                      status_code |-> 0]
    /\ UNCHANGED ciclo

NaConsulta == chamada.metodo = "consultar_empresa" /\ chamada.pc = "try"

\* time.sleep(20), requests.get, and what every frame does after its call
\* returned: it returns that value
RetornarDaConsulta(status_code, retorno) ==
    chamada' = [chamada EXCEPT !.pc = "retornou", !.pedidos = @ + 1, !.espera = @ + 20,
                               !.status_code = status_code]
               @@ [retorno |-> retorno]

\* status 200: the data, or None when the body says ERROR
Responder200 ==
    /\ NaConsulta
    /\ \E dados \in DadosReceita :
          RetornarDaConsulta(200, IF dados.status # "ERROR" THEN <<DadosDaEmpresa(dados)>> ELSE <<>>)
    /\ UNCHANGED ciclo

\* status 429: time.sleep(60) and the call of itself; at the recursion limit
\* of the interpreter the call raises RecursionError, which the except
\* clause of the frame catches
Responder429 ==
    /\ NaConsulta
    /\ IF chamada.profundidade < LimiteDeRecursao
       THEN chamada' = [chamada EXCEPT !.profundidade = @ + 1, !.pedidos = @ + 1,
                                       !.espera = @ + 20 + 60, !.status_code = 429]
       ELSE chamada' = [chamada EXCEPT !.pc = "retornou", !.pedidos = @ + 1,
                                       !.espera = @ + 20 + 60, !.status_code = 429]
                       @@ [retorno |-> <<>>]
    /\ UNCHANGED ciclo

\* any other status: neither branch is taken
ResponderOutroStatus ==
    /\ NaConsulta
    /\ RetornarDaConsulta(500, <<>>)
    /\ UNCHANGED ciclo

\* requests.get raises (timeout, connection): except Exception
ResponderComExcecao ==
    /\ NaConsulta
    /\ RetornarDaConsulta(0, <<>>)
    /\ UNCHANGED ciclo

NextConsulta ==
    \/ ChamarConsultarEmpresa
    \/ Responder200
    \/ Responder429
    \/ ResponderOutroStatus
    \/ ResponderComExcecao

SpecConsulta == Init /\ [][NextConsulta]_vars

-----------------------------------------------------------------------------
(* Properties *)

DeRisco == {MEDIO, ALTO, CRITICO}

\* the cycle has run _processar_casos
Processado == pc \in {"salvar_casos", "fim", "retornou"} /\ Len(analises) = Len(licitacoes)

RegistrosDeRisco == {i \in 1..Len(licitacoes) : analises[i].nivel_risco \in DeRisco}

\* C1: _processar_casos returns exactly one case for each record whose
\* analysis is Medium, High or Critical and none for a Low record, whatever
\* the shape of the record (any number of bidders, none included).
C1_UmCasoPorRegistroDeRisco ==
    Processado =>
        /\ Len(casos) = Cardinality(RegistrosDeRisco)
        /\ \A i \in RegistrosDeRisco : \E k \in 1..Len(casos) : casos[k].id = licitacoes[i].id
        /\ \A k \in 1..Len(casos) : \E i \in RegistrosDeRisco : casos[k].id = licitacoes[i].id

Em0a100(x) == 0 <= x.n /\ x.n <= 100 * x.d

\* C2: the aggregate score is within [0,100] for every evidence list, the
\* lists the five detectors produce for a record included, and it is 0, with
\* risk level Low, for the empty list.
C2_ScoreGeralEm0a100 ==
    /\ chamada.metodo = "analisar_licitacao" =>
          /\ Em0a100(chamada.retorno.score_geral)
          /\ chamada.retorno.evidencias = <<>> =>
                /\ chamada.retorno.score_geral = Num(0)
                /\ chamada.retorno.nivel_risco = BAIXO
    /\ chamada.metodo = "_calcular_score_geral" =>
          /\ Em0a100(chamada.retorno)
          /\ chamada.evidencias = <<>> => chamada.retorno = Num(0)

Detectores ==
    {"_analisar_preco_excessivo", "_analisar_especificacoes_tailor_made",
     "_analisar_empresa_cartel", "_analisar_baixa_concorrencia", "_analisar_prazo_suspeito"}

\* C3: every evidence item a detector emits has a score in [0,100], for any
\* number of matched phrases, any number of bidders and any closing date.
C3_ScoreDaEvidenciaEm0a100 ==
    /\ chamada.metodo \in Detectores =>
          \A i \in 1..Len(chamada.retorno) : Em0a100(chamada.retorno[i].score)
    /\ chamada.metodo = "analisar_licitacao" =>
          \A i \in 1..Len(chamada.retorno.evidencias) :
              Em0a100(chamada.retorno.evidencias[i].score)

Grau(nivel) ==
    CASE nivel = BAIXO -> 0 [] nivel = MEDIO -> 1 [] nivel = ALTO -> 2 [] nivel = CRITICO -> 3

\* C4: _determinar_nivel_risco is a monotonic step function with exact
\* boundaries: Critical from 80, High from 60 to below 80, Medium from 40 to
\* below 60, Low below 40.
C4_NivelRiscoDegraus ==
    chamada.metodo = "_determinar_nivel_risco" =>
        LET x == chamada.score
            nivel == chamada.retorno
        IN  /\ nivel = CRITICO <=> x.n >= 80 * x.d
            /\ nivel = ALTO    <=> (x.n >= 60 * x.d /\ x.n < 80 * x.d)
            /\ nivel = MEDIO   <=> (x.n >= 40 * x.d /\ x.n < 60 * x.d)
            /\ nivel = BAIXO   <=> x.n < 40 * x.d
            /\ \A a \in {chamada.anterior[i] : i \in 1..Len(chamada.anterior)} :
                  a.score.n * x.d <= x.n * a.score.d => Grau(a.retorno) <= Grau(nivel)

\* a score just below 80 is High, right after 80 was Critical
C4_Witness ==
    /\ chamada.metodo = "_determinar_nivel_risco"
    /\ chamada.score = Frac(7999, 100)
    /\ chamada.retorno = ALTO
    /\ chamada.anterior = <<[score |-> Num(80), retorno |-> CRITICO]>>

\* the weight table of the claim, in tenths
PesoDoTipo(tipo) ==
    CASE tipo = PRECO_EXCESSIVO            -> 4
      [] tipo = ESPECIFICACOES_TAILOR_MADE -> 3
      [] tipo = EMPRESA_CARTEL             -> 2
      [] tipo = BAIXA_CONCORRENCIA         -> 1
      [] OTHER                             -> 1

RECURSIVE SomaPonderada(_)
SomaPonderada(evs) ==
    IF evs = <<>> THEN Num(0)
    ELSE RAdd(Frac(evs[1].score.n * PesoDoTipo(evs[1].tipo), evs[1].score.d),
              SomaPonderada(Tail(evs)))

RECURSIVE SomaPesos(_)
SomaPesos(evs) == IF evs = <<>> THEN 0 ELSE PesoDoTipo(evs[1].tipo) + SomaPesos(Tail(evs))

\* score * (sum of weights) = sum of score*weight
MediaPonderada(score, evs) ==
    LET soma == SomaPonderada(evs)
    IN  score.n * SomaPesos(evs) * soma.d = soma.n * score.d

\* C5: for a non-empty evidence list _calcular_score_geral returns the sum of
\* score*weight divided by the sum of the weights of the items, with weights
\* 0.4, 0.3, 0.2, 0.1 and 0.1 for a kind outside the table; evidence
\* [excessive-price 80, low-competition 60] gives 76.
C5_ScoreGeralMediaPonderada ==
    /\ (chamada.metodo = "_calcular_score_geral" /\ chamada.evidencias # <<>>) =>
          /\ MediaPonderada(chamada.retorno, chamada.evidencias)
          /\ ( /\ Len(chamada.evidencias) = 2
               /\ chamada.evidencias[1].tipo = PRECO_EXCESSIVO
               /\ chamada.evidencias[1].score = Num(80)
               /\ chamada.evidencias[2].tipo = BAIXA_CONCORRENCIA
               /\ chamada.evidencias[2].score = Num(60) ) => chamada.retorno = Num(76)
    /\ (chamada.metodo = "analisar_licitacao" /\ chamada.retorno.evidencias # <<>>) =>
          MediaPonderada(chamada.retorno.score_geral, chamada.retorno.evidencias)

C5_Witness ==
    /\ chamada.metodo = "_calcular_score_geral"
    /\ Len(chamada.evidencias) = 2
    /\ chamada.evidencias[1].tipo = PRECO_EXCESSIVO
    /\ chamada.evidencias[1].score = Num(80)
    /\ chamada.evidencias[2].tipo = BAIXA_CONCORRENCIA
    /\ chamada.evidencias[2].score = Num(60)
    /\ chamada.retorno = Num(76)

\* the bids of a record
Lances(lic) == {lic.participantes[i].preco_proposto : i \in 1..Len(lic.participantes)}

EhMenorLance(m, lic) == m \in Lances(lic) /\ \A q \in Lances(lic) : m <= q

\* C6: with minimum bid m and reference r of the first line item,
\* _analisar_preco_excessivo emits evidence exactly when r is known and
\* positive and pct = (m - r)/r*100 exceeds the threshold, with score
\* min(100, pct) and detail {m, r, pct}; it emits nothing for an unknown, zero
\* or negative reference, for pct <= threshold and for a record without
\* bidders. Bids [4000] with r = 2500 give 60% and a score above 30; r = 3500
\* gives none.
C6_PrecoExcessivo ==
    chamada.metodo = "_analisar_preco_excessivo" =>
        LET lic == chamada.licitacao
            ret == chamada.retorno
            ref == IF lic.itens = <<>> THEN <<>>
                   ELSE PrecoMercado(chamada.patch, lic.itens[1].descricao)
            excede(m, r) == r > 0 /\ (m - r) * 100 > thresholds.preco_excessivo * r
        IN  /\ ret # <<>> <=>
                  /\ lic.participantes # <<>>
                  /\ ref # <<>>
                  /\ \E m \in Lances(lic) : EhMenorLance(m, lic) /\ excede(m, ref[1])
            /\ ret # <<>> =>
                  LET e == ret[1]
                      m == e.detalhes.preco_proposto
                      r == e.detalhes.preco_mercado
                      pct == e.detalhes.diferenca_percentual
                  IN  /\ e.tipo = PRECO_EXCESSIVO
                      /\ EhMenorLance(m, lic)
                      /\ r = ref[1]
                      /\ pct.n * r = (m - r) * 100 * pct.d
                      /\ IF pct.n > 100 * pct.d THEN e.score = Num(100) ELSE e.score = pct
            /\ (Lances(lic) = {4000} /\ lic.itens # <<>> /\ chamada.patch = Patch(<<2500>>)) =>
                  /\ ret # <<>>
                  /\ ret[1].detalhes.diferenca_percentual = Num(60)
                  /\ ret[1].descricao[2] = 600
                  /\ ret[1].score.n > 30 * ret[1].score.d
            /\ (Lances(lic) = {4000} /\ chamada.patch = Patch(<<3500>>)) => ret = <<>>

\* the lowest of two bids, not the first, is 60% above the reference
C6_Witness ==
    /\ chamada.metodo = "_analisar_preco_excessivo"
    /\ Len(chamada.licitacao.participantes) = 2
    /\ chamada.licitacao.participantes[1].preco_proposto = 4500
    /\ chamada.licitacao.participantes[2].preco_proposto = 4000
    /\ chamada.patch = Patch(<<2500>>)
    /\ chamada.retorno # <<>>
    /\ chamada.retorno[1].score = Num(60)

\* C7: with the default configuration _analisar_baixa_concorrencia emits
\* evidence exactly when the record has fewer than 2 bidders, with score
\* max(0, 100 - 50*count) and detail {count, threshold}: one bidder gives
\* score 50, two or more give nothing, none gives evidence.
C7_BaixaConcorrencia ==
    chamada.metodo = "_analisar_baixa_concorrencia" =>
        LET count == Len(chamada.licitacao.participantes)
            ret == chamada.retorno
            esperado == IF 100 - 50 * count > 0 THEN 100 - 50 * count ELSE 0
        IN  /\ ret # <<>> <=> count < 2
            /\ ret # <<>> =>
                  /\ ret[1].tipo = BAIXA_CONCORRENCIA
                  /\ ret[1].score = Num(esperado)
                  /\ ret[1].detalhes.num_participantes = count
                  /\ ret[1].detalhes.threshold = 2

CartelDe(a) == {a.evidencias[i] : i \in {j \in 1..Len(a.evidencias) : a.evidencias[j].tipo = EMPRESA_CARTEL}}

\* bidder named (nome, cnpj) proposes the minimum price of the record
EhVencedor(nome, cnpj, lic) ==
    \E i \in 1..Len(lic.participantes) :
        /\ lic.participantes[i].nome = nome
        /\ lic.participantes[i].cnpj = cnpj
        /\ EhMenorLance(lic.participantes[i].preco_proposto, lic)

\* C8: the winner of a record is the bidder with the minimum proposed price,
\* whatever its rank and its position in the list: the company and tax id in
\* the cartel evidence, and empresa_vencedora/cnpj of the case, both identify it.
C8_VencedorMenorPreco ==
    /\ (pc \in {"salvar_analises", "processar", "salvar_casos", "fim", "retornou"}
          /\ Len(analises) = Len(licitacoes)) =>
          \A i \in 1..Len(licitacoes) : \A e \in CartelDe(analises[i]) :
              EhVencedor(e.detalhes.empresa, e.detalhes.cnpj, licitacoes[i])
    /\ Processado =>
          \A k \in 1..Len(casos) : \E i \in 1..Len(licitacoes) :
              /\ licitacoes[i].id = casos[k].id
              /\ EhVencedor(casos[k].empresa_vencedora, casos[k].cnpj, licitacoes[i])

\* the suspicious phrases that occur in the lower-cased text
FrasesPresentes(texto) ==
    {f \in { <<"exclusivamente">>, <<"apenas">>, <<"somente">>, <<"obrigatoriamente">>,
             <<"marca", "específica">>, <<"modelo", "específico">> } :
        \E i \in 1..Len(texto) :
            /\ i + Len(f) - 1 <= Len(texto)
            /\ \A j \in 1..Len(f) : LowerTok(texto[i + j - 1]) = f[j]}

\* C9: each phrase of the fixed list that occurs in the lower-cased
\* specification of the first item adds 20, once however often it occurs;
\* evidence is emitted exactly when the sum exceeds 40, with that score and
\* the raw specification in the detail.
C9_TailorMade ==
    chamada.metodo = "_analisar_especificacoes_tailor_made" =>
        LET lic == chamada.licitacao
            ret == chamada.retorno
        IN  IF lic.itens = <<>> THEN ret = <<>>
            ELSE LET soma == 20 * Cardinality(FrasesPresentes(lic.itens[1].especificacoes))
                 IN  /\ ret # <<>> <=> soma > 40
                     /\ ret # <<>> =>
                           /\ ret[1].tipo = ESPECIFICACOES_TAILOR_MADE
                           /\ ret[1].score = Num(soma)
                           /\ ret[1].detalhes.score_suspeicao = soma
                           /\ ret[1].detalhes.especificacoes = lic.itens[1].especificacoes

\* three phrases in upper case, one of them twice: evidence of 60 with the raw text
C9_Witness ==
    /\ chamada.metodo = "_analisar_especificacoes_tailor_made"
    /\ chamada.licitacao.itens # <<>>
    /\ chamada.licitacao.itens[1].especificacoes =
          <<"Intel", "i5", "APENAS", "SOMENTE", "MARCA", "ESPECÍFICA", "APENAS">>
    /\ chamada.retorno # <<>>
    /\ chamada.retorno[1].score = Num(60)
    /\ chamada.retorno[1].detalhes.especificacoes = chamada.licitacao.itens[1].especificacoes

\* C10: _analisar_prazo_suspeito emits evidence exactly when the whole number
\* of days from now to the closing timestamp is below the threshold, with
\* score max(0, 100 - 20*days) and the day count in the detail; a record
\* closing 2 days ahead gives days = 2 and a positive score, also without
\* items and bidders, and a closed record (negative days) gives evidence.
C10_PrazoSuspeito ==
    chamada.metodo = "_analisar_prazo_suspeito" =>
        LET lic == chamada.licitacao
            ret == chamada.retorno
            horas == lic.data_fechamento - chamada.now
            dias == CHOOSE d \in -100..100 : 24 * d <= horas /\ horas < 24 * (d + 1)
            esperado == IF 100 - 20 * dias > 0 THEN 100 - 20 * dias ELSE 0
        IN  /\ ret # <<>> <=> dias < thresholds.prazo_suspeito
            /\ ret # <<>> =>
                  /\ ret[1].tipo = PRAZO_SUSPEITO
                  /\ ret[1].score = Num(esperado)
                  /\ ret[1].detalhes.dias_para_fechamento = dias
            /\ horas = 48 => (ret # <<>> /\ ret[1].detalhes.dias_para_fechamento = 2
                              /\ ret[1].score.n > 0)
            /\ horas < 0 => ret # <<>>

\* a record without items and bidders that closed an hour ago: days = -1
C10_Witness ==
    /\ chamada.metodo = "_analisar_prazo_suspeito"
    /\ chamada.licitacao.itens = <<>>
    /\ chamada.licitacao.participantes = <<>>
    /\ chamada.licitacao.data_fechamento - chamada.now = -1
    /\ chamada.retorno # <<>>
    /\ chamada.retorno[1].detalhes.dias_para_fechamento = -1

-----------------------------------------------------------------------------

\* the generic items of a score band
ItensDaFaixa(x) ==
    IF x.n >= 80 * x.d
    THEN <<"URGENTE: Investigação imediata recomendada", "Solicitar auditoria externa">>
    ELSE IF x.n >= 60 * x.d
    THEN <<"Análise detalhada recomendada", "Verificar histórico da empresa">>
    ELSE IF x.n >= 40 * x.d
    THEN <<"Monitoramento adicional recomendado">>
    ELSE <<>>

ItemDoTipo(tipo) ==
    CASE tipo = PRECO_EXCESSIVO            -> <<"Verificar preços de mercado atualizados">>
      [] tipo = ESPECIFICACOES_TAILOR_MADE -> <<"Revisar especificações técnicas">>
      [] tipo = EMPRESA_CARTEL             -> <<"Investigar histórico da empresa no órgão">>
      [] tipo = BAIXA_CONCORRENCIA         -> <<"Aumentar prazo para mais participantes">>
      [] OTHER                             -> <<>>

RECURSIVE ItensPorTipoDistinto(_, _)
\* one item per kind, at the first occurrence of the kind in the list
ItensPorTipoDistinto(evs, vistos) ==
    IF evs = <<>> THEN <<>>
    ELSE (IF evs[1].tipo \in vistos THEN <<>> ELSE ItemDoTipo(evs[1].tipo))
         \o ItensPorTipoDistinto(Tail(evs), vistos \cup {evs[1].tipo})

\* C11: _gerar_recomendacoes returns the generic items of the score band
\* first and then exactly one specific item per distinct evidence kind
\* present, in evidence-list order; for a score of 80 or more the first item
\* is the urgent one.
C11_RecomendacoesPorTipoDistinto ==
    chamada.metodo = "_gerar_recomendacoes" =>
        /\ chamada.retorno =
              ItensDaFaixa(chamada.score) \o ItensPorTipoDistinto(chamada.evidencias, {})
        /\ chamada.score.n >= 80 * chamada.score.d =>
              chamada.retorno[1] = "URGENTE: Investigação imediata recomendada"

RECURSIVE SomaScores(_)
SomaScores(evs) == IF evs = <<>> THEN Num(0) ELSE RAdd(evs[1].score, SomaScores(Tail(evs)))

\* c = min(100, min(100, 20*n) * mean(scores)/100) for the n >= 1 items of evs
EhConfiabilidade(c, evs) ==
    LET n    == Len(evs)
        base == IF 20 * n < 100 THEN 20 * n ELSE 100
        soma == SomaScores(evs)
        \* base * (soma/n) / 100 as the fraction an/ad
        an   == base * soma.n
        ad   == soma.d * n * 100
    IN  IF an > 100 * ad THEN c = Num(100) ELSE c.n * ad = an * c.d

\* C12: _calcular_confiabilidade returns min(100, min(100, 20*n) *
\* mean(scores)/100) for n >= 1 items and 0 for the empty list; it is within
\* [0,100] for every evidence list the detectors produce; scores [80, 60]
\* give 28.
C12_Confiabilidade ==
    /\ chamada.metodo = "_calcular_confiabilidade" =>
          /\ chamada.evidencias = <<>> => chamada.retorno = Num(0)
          /\ chamada.evidencias # <<>> => EhConfiabilidade(chamada.retorno, chamada.evidencias)
          /\ ( /\ Len(chamada.evidencias) = 2
               /\ chamada.evidencias[1].score = Num(80)
               /\ chamada.evidencias[2].score = Num(60) ) => chamada.retorno = Num(28)
    /\ chamada.metodo = "analisar_licitacao" =>
          /\ Em0a100(chamada.retorno.confiabilidade)
          /\ chamada.retorno.evidencias = <<>> => chamada.retorno.confiabilidade = Num(0)
          /\ chamada.retorno.evidencias # <<>> =>
                EhConfiabilidade(chamada.retorno.confiabilidade, chamada.retorno.evidencias)

\* four detectors fire on a record closed long ago: the mean of the scores
\* is far above 100 and the result is capped at 100
C12_Witness ==
    /\ chamada.metodo = "analisar_licitacao"
    /\ Len(chamada.retorno.evidencias) = 4
    /\ \E i \in 1..4 : chamada.retorno.evidencias[i].score.n > 100
    /\ chamada.retorno.confiabilidade = Num(100)

-----------------------------------------------------------------------------

\* what a reader finds in a store: a file that does not exist reads as []
Conteudo(arq) == IF arq = <<>> THEN <<>> ELSE arq[1]

\* the arrays the current run has produced
ArrayLicitacoes == [i \in 1..Len(licitacoes) |-> LicitacaoToDict(licitacoes[i])]
ArrayAnalises   == [i \in 1..Len(analises) |-> AnaliseToDict(analises[i])]
ArrayCasos      == [i \in 1..Len(casos) |-> CasoToDict(casos[i])]

\* C13: when a run of executar_ciclo_completo completes, each of the three
\* stores holds exactly the array that run produced, the empty array when it
\* produced nothing, and nothing an earlier run wrote remains. Stated for the
\* runs in which nothing failed.
C13_ArquivosSubstituidos ==
    (pc = "retornou" /\ NumFalhas(falhas) = 0) =>
        /\ "licitacoes" \notin truncados /\ Conteudo(arq_licitacoes) = ArrayLicitacoes
        /\ "analises" \notin truncados   /\ Conteudo(arq_analises) = ArrayAnalises
        /\ "casos" \notin truncados      /\ Conteudo(arq_casos) = ArrayCasos

Analisado ==
    /\ pc \notin {"inicio", "coletar", "abrir_licitacoes", "gravar_licitacoes", "analisar"}
    /\ Len(falhas.analise) = Len(licitacoes)

RECURSIVE AnalisesDosDemais(_, _)
\* the analyses, in order, of the records whose analysis did not fail
AnalisesDosDemais(lics, falhas_analise) ==
    IF lics = <<>> THEN <<>>
    ELSE (IF falhas_analise[1] = "nenhuma"
          THEN <<AnaliseToDict(AnalisarLicitacao(lics[1], agora, 10))>>
          ELSE <<>>)
         \o AnalisesDosDemais(Tail(lics), Tail(falhas_analise))

\* C15: when the analysis of one record of a batch fails, the failure is
\* caught, the record has no entry in the list _analisar_licitacoes returns
\* nor in the analyses store, and every other record is still analysed.
C15_FalhaExcluiRegistro ==
    Analisado =>
        /\ ArrayAnalises = AnalisesDosDemais(licitacoes, falhas.analise)
        /\ (pc \in {"processar", "abrir_casos", "gravar_casos", "fim", "retornou", "saiu"}
              /\ analises # <<>> /\ "analises" \notin falhas.escrita) =>
              Conteudo(arq_analises) = AnalisesDosDemais(licitacoes, falhas.analise)

\* the evidence kind of a detector
TipoDoDetector(metodo) ==
    CASE metodo = "_analisar_preco_excessivo"            -> PRECO_EXCESSIVO
      [] metodo = "_analisar_especificacoes_tailor_made" -> ESPECIFICACOES_TAILOR_MADE
      [] metodo = "_analisar_empresa_cartel"             -> EMPRESA_CARTEL
      [] metodo = "_analisar_baixa_concorrencia"         -> BAIXA_CONCORRENCIA
      [] metodo = "_analisar_prazo_suspeito"             -> PRAZO_SUSPEITO

\* C16: nothing in the scoring pipeline raises past its record boundary: for
\* every record, also one without bidders, without items, with an unknown
\* product or closed already, each detector returns one evidence item or
\* nothing, and analisar_licitacao returns an analysis for the record's id.
C16_NadaLevanta ==
    /\ chamada.metodo \in Detectores =>
          /\ Len(chamada.retorno) <= 1
          /\ Len(chamada.retorno) = 1 =>
                chamada.retorno[1].tipo = TipoDoDetector(chamada.metodo)
    /\ chamada.metodo = "analisar_licitacao" =>
          /\ chamada.retorno.licitacao_id = chamada.licitacao.id
          /\ chamada.retorno.nivel_risco \in NivelRisco
          /\ \A i \in 1..Len(chamada.retorno.evidencias) :
                chamada.retorno.evidencias[i].tipo \in TipoEvidencia

\* a record with bidders and without items: itens[0] raises in the detector,
\* which returns nothing
C16_Witness ==
    /\ chamada.metodo = "_analisar_preco_excessivo"
    /\ chamada.licitacao.itens = <<>>
    /\ chamada.licitacao.participantes # <<>>
    /\ chamada.retorno = <<>>

\* C17: if writing one of the three store files fails during a run,
\* executar_ciclo_completo does not raise, the later stages of the run are
\* executed, and the error list of the returned report records the failure.
C17_FalhaDePersistencia ==
    (pc = "retornou" /\ falhas.escrita # {}) =>
        /\ Analisado
        /\ relatorio.licitacoes_analisadas = Len(analises)
        /\ analises # <<>> => casos = ProcessarCasos(licitacoes, analises)
        /\ relatorio.erros # <<>>

\* C18: main ends with exit code 0 when the cycle succeeds, and with another
\* exit code when the pipeline hits a fatal error outside the processing of a
\* record: the collection raising, or the data directory not being creatable.
C18_CodigoDeSaida ==
    saida # <<>> =>
        /\ NumFalhas(falhas) = 0 => saida = <<0>>
        /\ (falhas.mkdir \/ falhas.coleta) => saida # <<0>>

C20_LeituraCompleta ==
    (leitura.arquivo # "nenhum" /\ leitura.escrevendo) =>
        leitura.retorno \in {Conteudo(leitura.gravado), leitura.novo}

\* C27: a fresh analyzer has the thresholds 30 (percent), 0.8, 0.7, 2 (bidders)
\* and 7 (days), and the weights 0.4, 0.3, 0.2 and 0.1; the fractions are in
\* hundredths (thresholds) and tenths (weights).
C27_Inicializacao ==
    chamada.metodo = "__init__" =>
        /\ chamada.thresholds.preco_excessivo = 30
        /\ chamada.thresholds.especificacoes_tailor_made = 80
        /\ chamada.thresholds.empresa_cartel = 70
        /\ chamada.thresholds.baixa_concorrencia = 2
        /\ chamada.thresholds.prazo_suspeito = 7
        /\ chamada.pesos.preco_excessivo = 4
        /\ chamada.pesos.especificacoes_tailor_made = 3
        /\ chamada.pesos.empresa_cartel = 2
        /\ chamada.pesos.baixa_concorrencia = 1

\* the prices of the table keywords that occur in a description
PrecosDasChaves(produto) ==
    {precos_mercado[i].p : i \in {j \in 1..Len(precos_mercado) :
                                     Contains(Lower(produto), precos_mercado[j].k)}}

\* the table entries whose keyword occurs in a description and is not a part
\* of another keyword that occurs in it too
MaisEspecificas(produto) ==
    LET hits == {i \in 1..Len(precos_mercado) :
                    Contains(Lower(produto), precos_mercado[i].k)}
    IN  {i \in hits : \A j \in hits :
            j = i \/ ~Contains(precos_mercado[j].k, precos_mercado[i].k)}

\* C30: _obter_preco_mercado gives 2500.00 for 'Notebook Dell', 1200.00 for
\* 'Tablet Samsung', 3000.00 for 'Computador Desktop' and None for 'Produto
\* Inexistente'; when several table keywords occur in a description, the most
\* specific one is matched first.
C30_PrecoMercado ==
    chamada.metodo = "_obter_preco_mercado" =>
        /\ chamada.produto = <<"Notebook", "Dell">> => chamada.retorno = <<2500>>
        /\ chamada.produto = <<"Tablet", "Samsung">> => chamada.retorno = <<1200>>
        /\ chamada.produto = <<"Computador", "Desktop">> => chamada.retorno = <<3000>>
        /\ chamada.produto = <<"Produto", "Inexistente">> => chamada.retorno = <<>>
        /\ MaisEspecificas(chamada.produto) # {} =>
              \E i \in MaisEspecificas(chamada.produto) :
                  chamada.retorno = <<precos_mercado[i].p>>

\* the priority tier that corresponds to a risk level
Contraparte(nivel) ==
    CASE nivel = CRITICO -> "Crítica"
      [] nivel = ALTO    -> "Alta"
      [] nivel = MEDIO   -> "Média"
      [] nivel = BAIXO   -> "Baixa"

\* C29: for every score, the boundaries 40, 60 and 80 included, the priority
\* tier _criar_caso_processado derives is the counterpart of the risk level
\* _determinar_nivel_risco derives from the same score; a case with score 75
\* has tier Alta, and no case built from a batch has tier Baixa.
C29_PrioridadeENivel ==
    /\ chamada.metodo = "_criar_caso_processado" =>
          /\ chamada.retorno.priority_level =
                Contraparte(DeterminarNivelRisco(chamada.analise.score_geral))
          /\ chamada.analise.score_geral = Num(75) =>
                chamada.retorno.priority_level = "Alta"
    /\ chamada.metodo = "_processar_casos" =>
          \A i \in 1..Len(chamada.retorno) : chamada.retorno[i].priority_level # "Baixa"

\* a case built from an analysis whose score is the boundary 60
C29_Witness ==
    /\ chamada.metodo = "_criar_caso_processado"
    /\ chamada.analise.score_geral = Num(60)
    /\ chamada.retorno.priority_level = "Alta"
    /\ chamada.retorno.nivel_risco = ALTO

\* C28: _processar_casos joins every record with the analysis computed from
\* that same record, also when two records of the batch have the same id:
\* the risk level, score and evidence of a case are those of the analysis of
\* the record that supplies its price, winner and issuing body.
C28_JuncaoComAPropriaAnalise ==
    Processado =>
        \A k \in 1..Len(casos) : \E i \in 1..Len(licitacoes) :
            /\ casos[k].id = licitacoes[i].id
            /\ casos[k].orgao = licitacoes[i].orgao
            /\ EhMenorLance(casos[k].preco_edital, licitacoes[i])
            /\ EhVencedor(casos[k].empresa_vencedora, casos[k].cnpj, licitacoes[i])
            /\ casos[k].nivel_risco = analises[i].nivel_risco
            /\ casos[k].risk_score = Trunc(analises[i].score_geral)
            /\ casos[k].evidencias =
                  [j \in 1..Len(analises[i].evidencias) |-> analises[i].evidencias[j].descricao]

\* the kinds and scores of the evidence of an analysis
TiposEScores(a) ==
    [i \in 1..Len(a.evidencias) |-> <<a.evidencias[i].tipo, a.evidencias[i].score>>]

\* C26: analysing the same record twice with the same clock value gives
\* evidence of the same kinds and scores, and so the same overall score, risk
\* level and recommendations; the draw of the win-rate stand-in never changes
\* whether cartel evidence is emitted, and the record is not modified.
C26_DetectoresPuros ==
    (chamada.metodo = "analisar_licitacao" /\ "anterior" \in DOMAIN chamada) =>
        /\ chamada.licitacao = chamada.anterior.licitacao
        /\ TiposEScores(chamada.retorno) = TiposEScores(chamada.anterior.retorno)
        /\ chamada.retorno.score_geral = chamada.anterior.retorno.score_geral
        /\ chamada.retorno.nivel_risco = chamada.anterior.retorno.nivel_risco
        /\ chamada.retorno.recomendacoes = chamada.anterior.retorno.recomendacoes
        /\ (CartelDe(chamada.retorno) = {}) = (CartelDe(chamada.anterior.retorno) = {})

\* two analyses of a record that has bidders and an id outside the fixed
\* list, so that the stand-in is drawn, with different draws
C26_Witness ==
    /\ chamada.metodo = "analisar_licitacao"
    /\ "anterior" \in DOMAIN chamada
    /\ chamada.licitacao.id \notin IdsSuspeitos
    /\ chamada.licitacao.participantes # <<>>
    /\ chamada.sorteio # chamada.anterior.sorteio
    /\ chamada.retorno.evidencias # <<>>

\* C24: statistics computed while the case store is empty or absent, by
\* HiperfaturamentoTracker.obter_estatisticas and by
\* DataService.get_estatisticas, have every field zero: total analysed,
\* suspicious cases, total amount and suspicion rate.
C24_EstatisticasDeStoreVazio ==
    Carregar("casos", arq_casos) = <<>> =>
        /\ chamada.metodo = "obter_estatisticas" => chamada.retorno = EstatisticasZeradas
        /\ (chamada.metodo = "GET" /\ chamada.caminho = <<"statistics">>
                /\ chamada.falha = "nenhuma") =>
               chamada.resposta.content.data = <<EstatisticasZeradas>>

\* the stored case satisfies every filter the query supplies
Satisfaz(caso, q) ==
    /\ q.risk_level = <<>> \/ caso.nivel_risco = q.risk_level[1]
    /\ q.orgao = <<>> \/ Contains(Lower(Palavras(caso.orgao)), Lower(Palavras(q.orgao[1])))
    /\ q.priority_level = <<>> \/ caso.priority_level = q.priority_level[1]

\* the first `limit` stored cases that satisfy the filters, in store order
PrimeirosQueSatisfazem(q) ==
    LET bons == SelectSeq(Carregar("casos", arq_casos), LAMBDA c : Satisfaz(c, q))
    IN  SubSeq(bons, 1, IF q.limit < Len(bons) THEN q.limit ELSE Len(bons))

\* C21: GET /cases with a valid combination of limit, risk_level, orgao and
\* priority_level returns the first `limit` stored cases, in store order,
\* that satisfy every supplied filter, and exactly `limit` of them when at
\* least `limit` stored cases satisfy the filters.
C21_PrimeirosCasosFiltrados ==
    (/\ chamada.metodo = "GET"
     /\ chamada.caminho = <<"cases">>
     /\ chamada.falha = "nenhuma"
     /\ chamada.q.risk_level = <<>> \/ chamada.q.risk_level[1] \in RiskLevel) =>
        LET esperados == PrimeirosQueSatisfazem(chamada.q)
        IN  /\ chamada.resposta.status_code = 200
            /\ chamada.resposta.content.data =
                   << [i \in 1..Len(esperados) |-> Noticia(esperados[i])] >>

\* C22: GET /cases/by-orgao is answered by the grouping endpoint: a success
\* envelope with one entry per issuing body of the case store, whose case
\* counts sum to the number of stored cases; "by-orgao" is not looked up as
\* a case id.
C22_CasosPorOrgao ==
    (/\ chamada.metodo = "GET"
     /\ chamada.caminho = <<"cases", "by-orgao">>
     /\ chamada.falha = "nenhuma") =>
        /\ chamada.resposta.status_code = 200
        /\ chamada.resposta.content.success
        /\ LET armazenados == Carregar("casos", arq_casos)
               grupos == chamada.resposta.content.data[1]
           IN  /\ {grupos[i].orgao : i \in 1..Len(grupos)}
                    = {armazenados[j].orgao : j \in 1..Len(armazenados)}
               /\ Len(grupos) = Cardinality({armazenados[j].orgao : j \in 1..Len(armazenados)})
               /\ Soma([i \in 1..Len(grupos) |-> grupos[i].casos]) = Len(armazenados)

\* the response is the envelope of an error: the four fields, success
\* false and data null
EnvelopeDeErro(resposta) ==
    /\ DOMAIN resposta.content = {"success", "message", "data", "timestamp"}
    /\ resposta.content.success = FALSE
    /\ resposta.content.data = <<>>

\* C23: every API response to a request that passes the validation of its
\* parameters carries the four envelope fields success,
\* message, data and timestamp; a case id absent from the store yields 404
\* and an unexpected failure yields 500, each as the envelope with success
\* false and data null, and the 500 message does not contain the text of
\* the internal exception.
C23_EnvelopeEmTodaResposta ==
    (chamada.metodo = "GET" /\ chamada.resposta.status_code # 422) =>
        /\ DOMAIN chamada.resposta.content = {"success", "message", "data", "timestamp"}
        /\ (chamada.caminho = <<"cases", "TEST-999">> /\ chamada.falha = "nenhuma") =>
               chamada.resposta.status_code = 404 /\ EnvelopeDeErro(chamada.resposta)
        /\ chamada.falha # "nenhuma" =>
               /\ chamada.resposta.status_code = 500
               /\ EnvelopeDeErro(chamada.resposta)
               /\ ~ Contains(chamada.resposta.content.message, <<TextoDaExcecao>>)

\* C25: consultar_empresa handles HTTP 429 by waiting and retrying once: one
\* call makes at most two requests, whatever the service answers.
C25_UmaNovaTentativa ==
    chamada.metodo = "consultar_empresa" => chamada.pedidos <= 2

====
